---------------------------- MODULE Spec2Model ----------------------------
(***************************************************************************)
(* Copy-trading session runtime of poly-dearboard: the session engine      *)
(* (src/api/engine.rs), the HTTP handlers that share its durable store     *)
(* (src/api/copytrade.rs, src/api/db.rs) and the WS subscriber that        *)
(* follows the tracked-address watch channel (src/api/ws_subscriber.rs).   *)
(*                                                                         *)
(* f64 amounts are fixed-point integers: USDC and shares in 1/Unit,        *)
(* prices in 1/PriceScale, copy_pct and max_loss_pct in percent.  Instants *)
(* are whole seconds of the clock `now`.                                   *)
(***************************************************************************)
EXTENDS Integers, Sequences, FiniteSets, TLC

-----------------------------------------------------------------------------
(* Program constants (engine.rs:57-64, ws_subscriber.rs:20-21)             *)

MAX_ORDERS_PER_MINUTE == 10
DEDUP_WINDOW == 30
COOLDOWN_DURATION == 60
MAX_CONSECUTIVE_FAILURES == 3
GTC_TIMEOUT == 3600
RATE_WINDOW == 60
RECONNECT_BASE_DELAY == 2
RECONNECT_MAX_DELAY == 60

(* Fixed-point resolution of the f64 fields.                               *)
Unit == 1000
PriceScale == 1000
MIN_ORDER_USDC == 1 * Unit
DUST_SHARES == Unit \div 1000

-----------------------------------------------------------------------------
(* Universe of the model                                                   *)

Assets == {"A", "B"}
Sides == {"buy", "sell"}
Keys == Assets \X Sides

None == "none"
NoTime == -1
NoVal == -1

Min(a, b) == IF a <= b THEN a ELSE b
Abs(a) == IF a >= 0 THEN a ELSE 0 - a

RECURSIVE SumOver(_, _)
SumOver(S, f) ==
    IF S = {} THEN 0
    ELSE LET x == CHOOSE y \in S : TRUE
         IN  f[x] + SumOver(S \ {x}, f)

(* The elements of a finite set of integers, ascending.                    *)
RECURSIVE SortedSeq(_)
SortedSeq(S) ==
    IF S = {} THEN << >>
    ELSE LET m == CHOOSE x \in S : \A y \in S : x <= y
         IN  <<m>> \o SortedSeq(S \ {m})

(* Every ordering of a finite set, as sequences.                           *)
Orderings(S) ==
    {q \in [1..Cardinality(S) -> S] : \A i, j \in 1..Cardinality(S) : i # j => q[i] # q[j]}

(* str::to_lowercase on the addresses of the model.                        *)
ToLower(a) == IF a = "A1" THEN "a1" ELSE IF a = "B1" THEN "b1" ELSE a

(* x * price, x / price, x * pct on fixed-point operands.                  *)
MulPrice(x, p) == (x * p) \div PriceScale
DivPrice(x, p) == (x * PriceScale) \div p
MulPct(x, pct) == (x * pct) \div 100

-----------------------------------------------------------------------------
(* Rows and in-memory session state                                        *)

NoPos == [has |-> FALSE, shares |-> 0, price |-> 0]
Pos(sh, p) == [has |-> TRUE, shares |-> sh, price |-> p]

NoRecent == [k \in Keys |-> NoTime]
NoPositions == [a \in Assets |-> NoPos]

(* ActiveSession as built by handle_start and by the startup reload.       *)
NewActiveSession(row, traders, positions) ==
    [ cfg |-> row.cfg,
      status |-> row.status,
      traders |-> traders,
      trader_count |-> Cardinality(traders),
      recent_orders |-> NoRecent,
      consecutive_failures |-> 0,
      cooldown_until |-> NoTime,
      remaining_capital |-> row.remaining_capital,
      positions |-> positions,
      open_gtc_orders |-> {} ]

(* One output of a step, in the order the code produces them: events on    *)
(* update_tx, sends on the watch channel, requests to the exchange.        *)
Out(type, sid, arg, n) == [type |-> type, sid |-> sid, arg |-> arg, n |-> n]

OrderRow(id, sid, asset, side, price, source_price, size_usdc, size_shares, status, fill_price, slippage_bps, clob_order_id, origin, at) ==
    [ id |-> id, session_id |-> sid, asset_id |-> asset, side |-> side,
      price |-> price, source_price |-> source_price, size_usdc |-> size_usdc,
      size_shares |-> size_shares, status |-> status, fill_price |-> fill_price,
      slippage_bps |-> slippage_bps, clob_order_id |-> clob_order_id,
      origin |-> origin, created_at |-> at ]

-----------------------------------------------------------------------------
(* The per-trade pipeline, engine.rs:447-1204.  A trade is                 *)
(* [trader, asset, side, price, usdc]; price and usdc are the parsed       *)
(* values, 0 standing for a string that does not parse to a positive f64.  *)
(* An env is what the outside answers during one process_trade call:       *)
(*   quote   the CLOB price, or NoVal when the request fails               *)
(*   rnd     the simulated slippage factor in 1/1000, within +-0.5%        *)
(*   post    the outcome of build/sign/post_order                          *)
(*   fill    the price the exchange matched at (0: a response with zero    *)
(*           amounts)                                                      *)
(*   ins_ok  whether the INSERT of the simulated order row succeeds        *)

NoTrade == [trader |-> "", asset |-> "", side |-> "", price |-> 0, usdc |-> 0]

(* The event a step handled, with the trade when it is one.                *)
Ev(kind, t) == [kind |-> kind, trade |-> t]

DedupKey(t) == <<t.asset, t.side>>

(* fetch_clob_price, engine.rs:1128-1142: None without a client.           *)
FetchClobPrice(clob, e) == IF clob = None THEN NoVal ELSE e.quote

QuoteOut(clob, sid, t) == IF clob = None THEN << >> ELSE <<Out("quote", sid, t.asset, 0)>>

(* Directional slippage in bps, engine.rs:637-641 and 798-802.             *)
SlippageBps(side, fill, src) ==
    IF side = "buy" THEN ((fill - src) * 10000) \div src
    ELSE ((src - fill) * 10000) \div src

(* slippage_bps > max_slippage_bps, engine.rs:643 and 804.                 *)
SlippageExceeds(side, fill, src, max_bps) ==
    IF side = "buy" THEN (fill - src) * 10000 > max_bps * src
    ELSE (src - fill) * 10000 > max_bps * src

(* A sizing that copies the source amount without the budget and the cap. *)
SizeOrderUncapped(t, s) ==
    IF t.side = "buy" THEN MulPct(t.usdc, s.cfg.copy_pct)
    ELSE IF s.positions[t.asset].shares <= 0 THEN NoVal
    ELSE MulPrice(Min(MulPct(DivPrice(t.usdc, t.price), s.cfg.copy_pct), s.positions[t.asset].shares), t.price)

(* Step 4, sizing, engine.rs:498-527: the order's USDC, or NoVal for a     *)
(* sell without a position.                                                *)
SizeOrder(t, s) ==
    IF t.side = "buy"
    THEN LET per_trader_budget ==
                 IF s.trader_count > 0
                 THEN MulPct(s.remaining_capital, s.cfg.copy_pct) \div s.trader_count
                 ELSE 0
         IN  Min(Min(MulPct(t.usdc, s.cfg.copy_pct), per_trader_budget), s.cfg.max_position_usdc)
    ELSE LET cur_shares == s.positions[t.asset].shares
         IN  IF cur_shares <= 0 THEN NoVal
             ELSE LET source_shares == DivPrice(t.usdc, t.price)
                      our_sell_shares == Min(MulPct(source_shares, s.cfg.copy_pct), cur_shares)
                  IN  MulPrice(our_sell_shares, t.price)

(* A sell that keeps the entry whatever is left of it.                     *)
AfterSellKept(positions, asset, sold, price) ==
    [positions EXCEPT ![asset] = Pos(positions[asset].shares - sold, price)]

(* positions after a sell of `sold` shares at `price`, engine.rs:687-694   *)
(* and 996-1003.                                                           *)
AfterSell(positions, asset, sold, price) ==
    LET new_shares == positions[asset].shares - sold
    IN  IF new_shares < DUST_SHARES
        THEN [positions EXCEPT ![asset] = NoPos]
        ELSE [positions EXCEPT ![asset] = Pos(new_shares, price)]

(* A buy that books twice the shares it paid for.                          *)
AfterBuyTwice(positions, asset, bought, price) ==
    [positions EXCEPT ![asset] = Pos(positions[asset].shares + 2 * bought, price)]

AfterBuy(positions, asset, bought, price) ==
    [positions EXCEPT ![asset] = Pos(positions[asset].shares + bought, price)]

(* A cooldown that starts one failure late.                                *)
FailuresCooledLate(s, at) ==
    [s EXCEPT !.consecutive_failures = @ + 1,
              !.cooldown_until = IF s.consecutive_failures >= MAX_CONSECUTIVE_FAILURES
                                 THEN at + COOLDOWN_DURATION
                                 ELSE s.cooldown_until]

(* A failure count that never starts a cooldown.                           *)
FailuresUncooled(s, at) == [s EXCEPT !.consecutive_failures = @ + 1]

(* record_failed_order, engine.rs:1147-1204.                               *)
FailuresAfter(s, at) ==
    LET n == s.consecutive_failures + 1
    IN  [s EXCEPT !.consecutive_failures = n,
                  !.cooldown_until = IF n >= MAX_CONSECUTIVE_FAILURES
                                     THEN at + COOLDOWN_DURATION
                                     ELSE s.cooldown_until]

RecordFailedOrder(sid, t, s, order_usdc, uuid, at, pre_out) ==
    [ submitted |-> FALSE, fill_price |-> NoVal,
      sess |-> FailuresAfter(s, at),
      rows |-> <<OrderRow(uuid, sid, t.asset, t.side, t.price, t.price, order_usdc, NoVal, "failed", NoVal, NoVal, NoVal, "engine", at)>>,
      out |-> pre_out \o <<Out("OrderFailed", sid, "engine", uuid)>> ]

Skipped(s, pre_out) == [submitted |-> FALSE, fill_price |-> NoVal, sess |-> s, rows |-> << >>, out |-> pre_out]

(* execute_simulated from the size check on, engine.rs:651-764, at the     *)
(* fill price it settled on.  The session is changed before the row is     *)
(* inserted, so a failed INSERT returns false with the capital and the     *)
(* position already moved.                                                 *)
SimulatedFill(sid, t, s, order_usdc, uuid, at, fill_price, q, e) ==
    LET size_shares == DivPrice(order_usdc, fill_price)
        cur_shares == s.positions[t.asset].shares
        actual_shares == IF t.side = "buy" THEN size_shares ELSE Min(size_shares, cur_shares)
        actual_usdc == IF t.side = "buy" THEN order_usdc ELSE MulPrice(actual_shares, fill_price)
        applied == IF t.side = "buy"
                   THEN [s EXCEPT !.remaining_capital = @ - actual_usdc,
                                  !.positions = AfterBuy(@, t.asset, actual_shares, fill_price)]
                   ELSE [s EXCEPT !.remaining_capital = @ + actual_usdc,
                                  !.positions = AfterSell(@, t.asset, actual_shares, fill_price)]
    IN  IF t.side = "sell" /\ cur_shares <= 0
        THEN Skipped(s, q)
        ELSE IF ~e.ins_ok
        THEN [Skipped(applied, q) EXCEPT !.fill_price = fill_price]
        ELSE [ submitted |-> TRUE, fill_price |-> fill_price,
               sess |-> [applied EXCEPT !.consecutive_failures = 0],
               rows |-> <<OrderRow(uuid, sid, t.asset, t.side, fill_price, t.price, actual_usdc, actual_shares, "simulated", fill_price, SlippageBps(t.side, fill_price, t.price), NoVal, "engine", at)>>,
               out |-> q \o <<Out("OrderPlaced", sid, t.asset, uuid), Out("OrderFilled", sid, t.asset, uuid)>> ]

(* A simulation that fills whatever the slippage.                          *)
SimulatedUngated(sid, t, s, order_usdc, uuid, at, fill_price, q, e) ==
    SimulatedFill(sid, t, s, order_usdc, uuid, at, fill_price, q, e)

(* A simulation that charges a buy twice.                                  *)
SimulatedTwice(sid, t, s, order_usdc, uuid, at, fill_price, q, e) ==
    IF SlippageExceeds(t.side, fill_price, t.price, s.cfg.max_slippage_bps)
    THEN Skipped(s, q)
    ELSE [SimulatedFill(sid, t, s, order_usdc, uuid, at, fill_price, q, e) EXCEPT
             !.sess.remaining_capital = IF t.side = "buy" THEN @ - order_usdc ELSE @]

(* The slippage gate of execute_simulated, engine.rs:636-649.              *)
SimulatedGate(sid, t, s, order_usdc, uuid, at, fill_price, q, e) ==
    IF SlippageExceeds(t.side, fill_price, t.price, s.cfg.max_slippage_bps)
    THEN Skipped(s, q)
    ELSE SimulatedFill(sid, t, s, order_usdc, uuid, at, fill_price, q, e)

(* The fill price of a simulation, engine.rs:625-634: the quote, or the    *)
(* source price moved by the random factor.                                *)
SimulatedPrice(t, current_price, e) ==
    IF current_price # NoVal THEN current_price ELSE (t.price * e.rnd) \div 1000

(* execute_simulated, engine.rs:610-764.                                   *)
ExecuteSimulated(sid, t, s, order_usdc, uuid, at, clob, e) ==
    SimulatedGate(sid, t, s, order_usdc, uuid, at, SimulatedPrice(t, FetchClobPrice(clob, e), e), QuoteOut(clob, sid, t), e)

(* The amounts of a Matched response: making is what we send, taking what  *)
(* we receive (engine.rs:949-957).  A buy spends the order's USDC at the   *)
(* matched price; a sell sends the shares the order was sized for.         *)
MakingAmount(t, order_usdc, e) ==
    IF e.fill = 0 THEN 0
    ELSE IF t.side = "buy" THEN order_usdc ELSE DivPrice(order_usdc, t.price)

TakingAmount(t, order_usdc, e) ==
    IF e.fill = 0 THEN 0
    ELSE IF t.side = "buy" THEN DivPrice(order_usdc, e.fill)
    ELSE MulPrice(DivPrice(order_usdc, t.price), e.fill)

(* fill_price_val of a Matched response, engine.rs:945-963.                *)
MatchedPrice(t, making, taking, current_price) ==
    IF taking > 0 /\ making > 0
    THEN (IF t.side = "buy" THEN DivPrice(making, taking) ELSE DivPrice(taking, making))
    ELSE current_price

(* Matched, engine.rs:943-1006.                                            *)
LiveMatched(sid, t, s, order_usdc, uuid, at, current_price, making, taking, fp, pre_out) ==
    LET shares_filled == IF t.side = "buy" THEN taking ELSE making
        matched == IF t.side = "buy"
                   THEN [s EXCEPT !.remaining_capital = @ - making,
                                  !.positions = AfterBuy(@, t.asset, shares_filled, fp),
                                  !.consecutive_failures = 0]
                   ELSE [s EXCEPT !.remaining_capital = @ + taking,
                                  !.positions = AfterSell(@, t.asset, shares_filled, fp),
                                  !.consecutive_failures = 0]
    IN  [ submitted |-> TRUE, fill_price |-> fp,
          sess |-> matched,
          rows |-> <<OrderRow(uuid, sid, t.asset, t.side, current_price, t.price, order_usdc, shares_filled, "filled", fp, Abs(((fp - t.price) * 10000) \div t.price), uuid, "engine", at)>>,
          out |-> pre_out \o <<Out("OrderFilled", sid, t.asset, uuid)>> ]

(* Live, engine.rs:1007-1021: the order rests; a buy reserves its USDC.    *)
LiveResting(sid, t, s, order_usdc, uuid, at, current_price, pre_out) ==
    [ submitted |-> TRUE, fill_price |-> NoVal,
      sess |-> [s EXCEPT !.remaining_capital = IF t.side = "buy" THEN @ - order_usdc ELSE @,
                         !.open_gtc_orders = @ \cup {[clob_id |-> uuid, our_id |-> uuid, placed_at |-> at, usdc |-> order_usdc]},
                         !.consecutive_failures = 0],
      rows |-> <<OrderRow(uuid, sid, t.asset, t.side, current_price, t.price, order_usdc, DivPrice(order_usdc, t.price), "submitted", NoVal, NoVal, uuid, "engine", at)>>,
      out |-> pre_out ]

(* An unfilled order that is charged to the session all the same.         *)
LiveUnfilledCharged(sid, t, s, order_usdc, uuid, at, current_price, status, pre_out) ==
    [ submitted |-> TRUE, fill_price |-> NoVal,
      sess |-> [s EXCEPT !.remaining_capital = @ - order_usdc, !.consecutive_failures = 0],
      rows |-> <<OrderRow(uuid, sid, t.asset, t.side, current_price, t.price, order_usdc, NoVal, status, NoVal, NoVal, uuid, "engine", at)>>,
      out |-> pre_out ]

(* Canceled | Unmatched, and any other status, engine.rs:1022-1036.        *)
LiveUnfilled(sid, t, s, order_usdc, uuid, at, current_price, status, pre_out) ==
    [ submitted |-> TRUE, fill_price |-> NoVal,
      sess |-> [s EXCEPT !.consecutive_failures = 0],
      rows |-> <<OrderRow(uuid, sid, t.asset, t.side, current_price, t.price, order_usdc, NoVal, status, NoVal, NoVal, uuid, "engine", at)>>,
      out |-> pre_out ]

(* The Ok(resp) if resp.success arm, engine.rs:936-1085.                   *)
LiveAccepted(sid, t, s, order_usdc, uuid, at, current_price, e, pre_out) ==
    CASE e.post = "matched" ->
             LiveMatched(sid, t, s, order_usdc, uuid, at, current_price,
                         MakingAmount(t, order_usdc, e), TakingAmount(t, order_usdc, e),
                         MatchedPrice(t, MakingAmount(t, order_usdc, e), TakingAmount(t, order_usdc, e), current_price), pre_out)
      [] e.post = "live" -> LiveResting(sid, t, s, order_usdc, uuid, at, current_price, pre_out)
      [] e.post = "unmatched" -> LiveUnfilled(sid, t, s, order_usdc, uuid, at, current_price, "canceled", pre_out)
      [] OTHER -> LiveUnfilled(sid, t, s, order_usdc, uuid, at, current_price, "submitted", pre_out)

(* execute_live from the slippage gate on, engine.rs:798-1122.             *)
(* "build_err" is an Err of build or sign (nothing reaches the exchange),  *)
(* "post_err" an Err of post_order, "rejected" a response with             *)
(* success = false.                                                        *)
LivePost(sid, t, s, order_usdc, uuid, at, clob, current_price, placed, e) ==
    IF SlippageExceeds(t.side, current_price, t.price, s.cfg.max_slippage_bps)
    THEN Skipped(s, QuoteOut(clob, sid, t))
    ELSE IF clob = None \/ e.post = "build_err"
    THEN RecordFailedOrder(sid, t, s, order_usdc, uuid, at, placed)
    ELSE IF e.post \in {"post_err", "rejected"}
    THEN RecordFailedOrder(sid, t, s, order_usdc, uuid, at, Append(placed, Out("post", sid, t.asset, uuid)))
    ELSE LiveAccepted(sid, t, s, order_usdc, uuid, at, current_price, e, Append(placed, Out("post", sid, t.asset, uuid)))

(* execute_live, engine.rs:771-1122.                                       *)
ExecuteLive(sid, t, s, order_usdc, uuid, at, clob, e) ==
    IF FetchClobPrice(clob, e) = NoVal
    THEN Skipped(s, QuoteOut(clob, sid, t))
    ELSE LivePost(sid, t, s, order_usdc, uuid, at, clob, FetchClobPrice(clob, e), Append(QuoteOut(clob, sid, t), Out("OrderPlaced", sid, t.asset, uuid)), e)

(* What process_trade leaves behind: the session, the rate window, the     *)
(* rows inserted, the outputs, whether the store's status was set to       *)
(* paused, and whether dedup and the rate window were stamped.             *)
Left(s, ots, r, paused) ==
    [ sess |-> s, ots |-> ots, rows |-> r.rows, out |-> r.out, db_paused |-> paused, submitted |-> r.submitted, fill_price |-> r.fill_price ]

(* A skip that marks the session paused in the store.                      *)
QuietPaused(s, ots) == Left(s, ots, Skipped(s, << >>), TRUE)

Quiet(s, ots) == Left(s, ots, Skipped(s, << >>), FALSE)

Retained(ots, at) == SelectSeq(ots, LAMBDA x : at - x < RATE_WINDOW)

(* Step 11, engine.rs:599-603: dedup and the rate window are stamped only  *)
(* when the execution returned true.                                       *)
Bookkept(t, kept, at, r) ==
    IF r.submitted
    THEN Left([r.sess EXCEPT !.recent_orders[DedupKey(t)] = at], Append(kept, at), r, FALSE)
    ELSE Left(r.sess, kept, r, FALSE)

(* Steps 6 to 11, engine.rs:553-604.                                       *)
RateLimited(sid, t, s, kept, clob, uuid, at, e, order_usdc) ==
    IF Len(kept) >= MAX_ORDERS_PER_MINUTE
    THEN Quiet(s, kept)
    ELSE Bookkept(t, kept, at,
             IF s.cfg.simulate
             THEN ExecuteSimulated(sid, t, s, order_usdc, uuid, at, clob, e)
             ELSE ExecuteLive(sid, t, s, order_usdc, uuid, at, clob, e))

(* Steps 4 and 5 once the order is sized, engine.rs:529-551.               *)
Sized(sid, t, s, ots, clob, uuid, at, e, order_usdc) ==
    IF order_usdc = NoVal \/ order_usdc < MIN_ORDER_USDC
    THEN Quiet(s, ots)
    ELSE IF t.side = "buy" /\ s.remaining_capital < order_usdc
    THEN (IF s.remaining_capital < MIN_ORDER_USDC
          THEN Left([s EXCEPT !.status = "paused"], ots, Skipped(s, <<Out("SessionPaused", sid, "balance", 0)>>), TRUE)
          ELSE Quiet(s, ots))
    ELSE RateLimited(sid, t, s, Retained(ots, at), clob, uuid, at, e, order_usdc)

(* Step 3 and the parsing, engine.rs:472-496, for a session out of         *)
(* cooldown.                                                               *)
Deduped(sid, t, s, ots, clob, uuid, at, e) ==
    IF s.recent_orders[DedupKey(t)] # NoTime /\ at - s.recent_orders[DedupKey(t)] < DEDUP_WINDOW
    THEN Quiet(s, ots)
    ELSE IF t.price <= 0 \/ t.usdc <= 0
    THEN Quiet(s, ots)
    ELSE Sized(sid, t, s, ots, clob, uuid, at, e, SizeOrder(t, s))

(* Step 2, engine.rs:462-470: an elapsed cooldown is cleared.              *)
CooledDown(s) == [s EXCEPT !.cooldown_until = NoTime, !.consecutive_failures = 0]

(* process_trade, engine.rs:447-604.                                       *)
ProcessTrade(sid, t, s, ots, clob, uuid, at, e) ==
    IF ToLower(t.trader) \notin s.traders
    THEN Quiet(s, ots)
    ELSE IF s.cooldown_until # NoTime /\ at < s.cooldown_until
    THEN Quiet(s, ots)
    ELSE Deduped(sid, t, (IF s.cooldown_until # NoTime THEN CooledDown(s) ELSE s), ots, clob, uuid, at, e)

-----------------------------------------------------------------------------
(* State                                                                   *)

VARIABLES
    sessions,          \* engine: HashMap<String, ActiveSession>
    order_timestamps,  \* engine: VecDeque<Instant>, the global rate window
    clob_client,       \* shared Option<ClobClientState>: None or its owner
    cmd_queue,         \* mpsc channel HTTP handlers -> engine
    watch,             \* trader_watch: latest value, unseen by the receiver
    db_sessions,       \* table copy_trade_sessions
    db_orders,         \* table copy_trade_orders, in created_at order
    next_uuid,         \* ids handed out so far (order ids, exchange ids)
    next_session,      \* session ids handed out so far
    now,               \* the clock, seconds
    event,             \* the event handled by the last step
    out,               \* what the last step emitted, in order
    submissions,       \* history: orders posted to the exchange or simulated
    ledger,            \* history: average-cost books of the fills applied
    ws                 \* the WS subscriber task

vars == <<sessions, order_timestamps, clob_client, cmd_queue, watch, db_sessions, db_orders, next_uuid, next_session, now, event, out, submissions, ledger, ws>>

(* Members of the trader lists as stored (db.rs:1070-1094) and the rows of *)
(* the top-N query; resolve_session_traders lowercases list members only.  *)
ListMembers(source) ==
    CASE source = "L1" -> {"A1"}
      [] source = "L2" -> {"a1", "B1"}
      [] OTHER -> {}

TopTraders == {"b1"}

(* resolve_session_traders, engine.rs:141-183.                             *)
ResolveSessionTraders(cfg) ==
    IF cfg.source = "top" THEN TopTraders
    ELSE {ToLower(a) : a \in ListMembers(cfg.source)}

(* Every active session, whatever its status.                              *)
Everyone(sess) == DOMAIN sess

Running(sess) == {s \in DOMAIN sess : sess[s].status = "running"}

(* publish_tracked_addresses, engine.rs:1210-1226.                         *)
TrackedUnion(sess) == {ToLower(a) : a \in UNION {sess[s].traders : s \in Running(sess)}}

Published(sess) == [value |-> TrackedUnion(sess), unseen |-> TRUE]

PublishOut == <<Out("publish", 0, "watch", 0)>>

(* Function update and removal on the HashMap and on the tables.           *)
Put(f, k, v) == [x \in DOMAIN f \cup {k} |-> IF x = k THEN v ELSE f[x]]
Drop(f, K) == [x \in DOMAIN f \ K |-> f[x]]

(* update_session_status / update_session_capital, db.rs:683-707: UPDATE   *)
(* ... WHERE id, no row changes when the id is gone.                       *)
UpdateSessionStatus(db, sid, status) ==
    IF sid \in DOMAIN db THEN [db EXCEPT ![sid].status = status] ELSE db

UpdateSessionCapital(db, sid, remaining) ==
    IF sid \in DOMAIN db THEN [db EXCEPT ![sid].remaining_capital = remaining] ELSE db

(* insert_copytrade_order, db.rs:748-766: the foreign key on session_id    *)
(* refuses a row whose session is gone.                                    *)
InsertOrders(orders, rows, db) == orders \o SelectSeq(rows, LAMBDA r : r.session_id \in DOMAIN db)

(* update_copytrade_order, db.rs:768-784, as used for status only.         *)
UpdateOrderStatus(orders, ids, status) ==
    [i \in DOMAIN orders |-> IF orders[i].id \in ids THEN [orders[i] EXCEPT !.status = status] ELSE orders[i]]

(* get_net_shares, db.rs:805-819.                                          *)
RECURSIVE NetSharesUpTo(_, _, _, _)
NetSharesUpTo(orders, n, sid, asset) ==
    IF n = 0 THEN 0
    ELSE LET r == orders[n]
             counted == r.session_id = sid /\ r.asset_id = asset /\ r.status \in {"filled", "simulated"}
         IN  NetSharesUpTo(orders, n - 1, sid, asset)
             + (IF counted /\ r.side = "buy" THEN r.size_shares ELSE 0)
             - (IF counted /\ r.side = "sell" THEN r.size_shares ELSE 0)

GetNetShares(orders, sid, asset) == NetSharesUpTo(orders, Len(orders), sid, asset)

(* get_last_fill_price, db.rs:886-900: NoVal when there is none.           *)
GetLastFillPrice(orders, sid, asset) ==
    LET fills == {i \in DOMAIN orders : orders[i].session_id = sid /\ orders[i].asset_id = asset
                                         /\ orders[i].fill_price # NoVal /\ orders[i].status \in {"filled", "simulated"}}
    IN  IF fills = {} THEN NoVal ELSE orders[CHOOSE i \in fills : \A j \in fills : j <= i].fill_price

(* get_session_positions, db.rs:856-883.                                   *)
GetSessionPositions(orders, sid) ==
    [a \in Assets |->
        LET net == GetNetShares(orders, sid, a)
            last == GetLastFillPrice(orders, sid, a)
        IN  IF net > DUST_SHARES THEN Pos(net, IF last = NoVal THEN 0 ELSE last) ELSE NoPos]

-----------------------------------------------------------------------------
(* The engine loop, engine.rs:254-348                                      *)

(* Whether one process_trade call put an order on the exchange or          *)
(* simulated one: what the dedup and rate-limit contracts count.           *)
Submission(sid, t, s, r, at) ==
    IF (s.cfg.simulate /\ r.submitted) \/ (\E i \in DOMAIN r.out : r.out[i].type = "post")
    THEN <<[sid |-> sid, asset |-> t.asset, side |-> t.side, at |-> at, via |-> "engine"]>>
    ELSE << >>

(* The average-cost book of a session: what its open shares cost, per      *)
(* asset, and the profit realized by its sells.  Booked(b, a, s, s2, p)    *)
(* enters the fill at price p that took the shares of asset a from those   *)
(* of s to those of s2.                                                    *)
NoBook == [cost |-> [a \in Assets |-> 0], realized |-> 0]

BookOf(books, sid) == IF sid \in DOMAIN books THEN books[sid] ELSE NoBook

SoldBasis(b, a, sold, held) == (b.cost[a] * sold) \div held

Booked(b, a, s, s2, p) ==
    IF s2.positions[a].shares > s.positions[a].shares
    THEN [b EXCEPT !.cost[a] = @ + MulPrice(s2.positions[a].shares - s.positions[a].shares, p)]
    ELSE IF s2.positions[a].shares < s.positions[a].shares
    THEN [b EXCEPT !.cost[a] = @ - SoldBasis(b, a, s.positions[a].shares - s2.positions[a].shares, s.positions[a].shares),
                   !.realized = @ + MulPrice(s.positions[a].shares - s2.positions[a].shares, p)
                                  - SoldBasis(b, a, s.positions[a].shares - s2.positions[a].shares, s.positions[a].shares)]
    ELSE b

(* The trade branch, engine.rs:256-272: process_trade for the Running      *)
(* sessions one after the other, in the map's iteration order q.           *)
Merged(acc, sid, t, s, r, at) ==
    [ sessions |-> [acc.sessions EXCEPT ![sid] = r.sess],
      ots |-> r.ots,
      rows |-> acc.rows \o r.rows,
      out |-> acc.out \o r.out,
      paused |-> acc.paused \cup (IF r.db_paused THEN {sid} ELSE {}),
      uuid |-> acc.uuid + Len(r.rows),
      subs |-> acc.subs \o Submission(sid, t, s, r, at),
      books |-> IF r.sess.positions = s.positions THEN acc.books
                ELSE Put(acc.books, sid, Booked(BookOf(acc.books, sid), t.asset, s, r.sess, r.fill_price)) ]

RECURSIVE ProcessAll(_, _, _, _, _, _)
ProcessAll(q, i, n, t, envs, acc) ==
    IF i > n THEN acc
    ELSE ProcessAll(q, i + 1, n, t, envs,
             Merged(acc, q[i], t, acc.sessions[q[i]],
                    ProcessTrade(q[i], t, acc.sessions[q[i]], acc.ots, clob_client, acc.uuid, now,
                                 [envs[q[i]] EXCEPT !.ins_ok = @ /\ q[i] \in DOMAIN db_sessions]),
                    now))

RECURSIVE PauseAll(_, _)
PauseAll(db, S) ==
    IF S = {} THEN db
    ELSE LET x == CHOOSE y \in S : TRUE
         IN  PauseAll(UpdateSessionStatus(db, x, "paused"), S \ {x})

TradeHandled(t, acc) ==
    /\ sessions' = acc.sessions
    /\ order_timestamps' = acc.ots
    /\ db_orders' = InsertOrders(db_orders, acc.rows, db_sessions)
    /\ db_sessions' = PauseAll(db_sessions, acc.paused)
    /\ next_uuid' = acc.uuid
    /\ submissions' = submissions \o acc.subs
    /\ ledger' = acc.books
    /\ out' = acc.out
    /\ event' = Ev("trade", t)
    /\ UNCHANGED <<clob_client, cmd_queue, watch, next_session, now, ws>>

RecvTrade(t, q, envs) ==
    TradeHandled(t, ProcessAll(q, 1, Cardinality(Running(sessions)), t, envs,
                     [ sessions |-> sessions, ots |-> order_timestamps, rows |-> << >>, out |-> << >>,
                       paused |-> {}, uuid |-> next_uuid, subs |-> << >>, books |-> ledger ]))

(* A handle_start that marks a failed start in the store and tells nobody. *)
HandleStartSilent(c, init_ok, resolve_ok) ==
    LET found == c.sid \in DOMAIN db_sessions
        row == db_sessions[c.sid]
        needs_init == ~row.cfg.simulate /\ clob_client = None
        failed == (needs_init /\ ~init_ok) \/ ~resolve_ok
        started == Put(sessions, c.sid, NewActiveSession(row, ResolveSessionTraders(row.cfg), NoPositions))
    IN  /\ out' = PublishOut
        /\ IF ~found
           THEN watch' = Published(sessions) /\ UNCHANGED <<sessions, clob_client, db_sessions>>
           ELSE /\ clob_client' = IF needs_init /\ init_ok THEN c.owner ELSE clob_client
                /\ sessions' = IF failed THEN sessions ELSE started
                /\ watch' = Published(sessions')
                /\ db_sessions' = IF failed THEN UpdateSessionStatus(db_sessions, c.sid, "stopped") ELSE db_sessions

(* handle_start, engine.rs:355-441, followed by the publish of line 290.   *)
(* init_ok: init_clob_client succeeds; resolve_ok: the traders resolve.    *)
HandleStart(c, init_ok, resolve_ok) ==
    LET found == c.sid \in DOMAIN db_sessions
        row == db_sessions[c.sid]
        needs_init == ~row.cfg.simulate /\ clob_client = None
        started == Put(sessions, c.sid, NewActiveSession(row, ResolveSessionTraders(row.cfg), NoPositions))
    IN  IF ~found
        THEN /\ watch' = Published(sessions)
             /\ out' = PublishOut
             /\ UNCHANGED <<sessions, clob_client, db_sessions>>
        ELSE IF needs_init /\ ~init_ok
        THEN /\ db_sessions' = UpdateSessionStatus(db_sessions, c.sid, "stopped")
             /\ watch' = Published(sessions)
             /\ out' = <<Out("SessionStopped", c.sid, "clob_init_failed", 0)>> \o PublishOut
             /\ UNCHANGED <<sessions, clob_client>>
        ELSE /\ clob_client' = IF needs_init THEN c.owner ELSE clob_client
             /\ IF resolve_ok
                THEN /\ sessions' = started
                     /\ watch' = Published(started)
                     /\ out' = PublishOut
                     /\ UNCHANGED db_sessions
                ELSE /\ db_sessions' = UpdateSessionStatus(db_sessions, c.sid, "stopped")
                     /\ watch' = Published(sessions)
                     /\ out' = <<Out("SessionStopped", c.sid, "resolve_failed", 0)>> \o PublishOut
                     /\ UNCHANGED sessions

(* A Pause that also cancels the open GTC orders of the session.           *)
HandlePauseCancels(c) ==
    /\ UNCHANGED <<clob_client, db_sessions>>
    /\ IF c.sid \in DOMAIN sessions
       THEN /\ sessions' = [sessions EXCEPT ![c.sid].status = "paused"]
            /\ watch' = Published(sessions')
            /\ out' = (IF sessions[c.sid].open_gtc_orders # {} /\ clob_client # None
                     THEN <<Out("cancel_all", c.sid, "all", Cardinality(sessions[c.sid].open_gtc_orders))>>
                     ELSE << >>) \o <<Out("SessionPaused", c.sid, "user", 0)>> \o PublishOut
       ELSE UNCHANGED <<sessions, watch>> /\ out' = << >>

(* A Pause that flips the status of the session.                           *)
HandlePauseToggle(c) ==
    /\ UNCHANGED <<clob_client, db_sessions>>
    /\ IF c.sid \in DOMAIN sessions
       THEN /\ sessions' = [sessions EXCEPT ![c.sid].status = IF @ = "paused" THEN "running" ELSE "paused"]
            /\ watch' = Published(sessions')
            /\ out' = <<Out("SessionPaused", c.sid, "user", 0)>> \o PublishOut
       ELSE UNCHANGED <<sessions, watch>> /\ out' = << >>

(* A Pause that does not republish the tracked set.                        *)
HandlePauseQuiet(c) ==
    /\ UNCHANGED <<clob_client, db_sessions, watch>>
    /\ IF c.sid \in DOMAIN sessions
       THEN /\ sessions' = [sessions EXCEPT ![c.sid].status = "paused"]
            /\ out' = <<Out("SessionPaused", c.sid, "user", 0)>>
       ELSE UNCHANGED sessions /\ out' = << >>

(* Pause, engine.rs:292-301.                                               *)
HandlePause(c) ==
    LET paused == [sessions EXCEPT ![c.sid].status = "paused"]
    IN  /\ UNCHANGED <<clob_client, db_sessions>>
        /\ IF c.sid \in DOMAIN sessions
           THEN /\ sessions' = paused
                /\ watch' = Published(paused)
                /\ out' = <<Out("SessionPaused", c.sid, "user", 0)>> \o PublishOut
           ELSE UNCHANGED <<sessions, watch>> /\ out' = << >>

(* A Resume that rebuilds the session the way a restart does, without its  *)
(* open GTC orders.                                                        *)
HandleResumeFresh(c, resolve_ok) ==
    /\ UNCHANGED <<clob_client, db_sessions>>
    /\ IF c.sid \in DOMAIN sessions
       THEN /\ sessions' = [sessions EXCEPT ![c.sid].status = "running", ![c.sid].open_gtc_orders = {}]
            /\ watch' = Published(sessions')
            /\ out' = <<Out("SessionResumed", c.sid, "user", 0)>> \o PublishOut
       ELSE UNCHANGED <<sessions, watch>> /\ out' = << >>

(* Resume, engine.rs:302-318.                                              *)
HandleResume(c, resolve_ok) ==
    LET s == sessions[c.sid]
        traders == IF resolve_ok THEN ResolveSessionTraders(s.cfg) ELSE s.traders
        resumed == [sessions EXCEPT ![c.sid] =
                       [s EXCEPT !.traders = traders,
                                 !.trader_count = IF resolve_ok THEN Cardinality(traders) ELSE s.trader_count,
                                 !.status = "running",
                                 !.consecutive_failures = 0,
                                 !.cooldown_until = NoTime]]
    IN  /\ UNCHANGED <<clob_client, db_sessions>>
        /\ IF c.sid \in DOMAIN sessions
           THEN /\ sessions' = resumed
                /\ watch' = Published(resumed)
                /\ out' = <<Out("SessionResumed", c.sid, "user", 0)>> \o PublishOut
           ELSE UNCHANGED <<sessions, watch>> /\ out' = << >>

(* cancel_orders for every open GTC order of a session: one request, when  *)
(* there is something to cancel and a client to ask.  The exchange's       *)
(* answer is noted with the request; the callers drop it.                  *)
CancelAllOut(sid, s, answer) ==
    IF s.open_gtc_orders # {} /\ clob_client # None
    THEN <<Out("cancel_all", sid, answer, Cardinality(s.open_gtc_orders))>>
    ELSE << >>

(* A Stop that gives up when the cancel request fails.                     *)
HandleStopBlocked(c, answer) ==
    /\ UNCHANGED <<clob_client, db_sessions>>
    /\ IF c.sid \in DOMAIN sessions /\ CancelAllOut(c.sid, sessions[c.sid], answer) # << >> /\ answer = "err"
       THEN UNCHANGED <<sessions, watch>> /\ out' = CancelAllOut(c.sid, sessions[c.sid], answer)
       ELSE IF c.sid \in DOMAIN sessions
       THEN /\ sessions' = Drop(sessions, {c.sid})
            /\ watch' = Published(sessions')
            /\ out' = CancelAllOut(c.sid, sessions[c.sid], answer) \o <<Out("SessionStopped", c.sid, "user", 0)>> \o PublishOut
       ELSE UNCHANGED <<sessions, watch>> /\ out' = << >>

(* Stop, engine.rs:319-339.                                                *)
HandleStop(c, answer) ==
    LET removed == Drop(sessions, {c.sid})
    IN  /\ UNCHANGED <<clob_client, db_sessions>>
        /\ IF c.sid \in DOMAIN sessions
           THEN /\ sessions' = removed
                /\ watch' = Published(removed)
                /\ out' = CancelAllOut(c.sid, sessions[c.sid], answer) \o <<Out("SessionStopped", c.sid, "user", 0)>> \o PublishOut
           ELSE UNCHANGED <<sessions, watch>> /\ out' = << >>

(* The command branch, engine.rs:283-341.                                  *)
HandleCommand(init_ok, resolve_ok, answer) ==
    /\ cmd_queue # << >>
    /\ LET c == Head(cmd_queue)
       IN  CASE c.type = "Start" -> HandleStart(c, init_ok, resolve_ok)
             [] c.type = "Pause" -> HandlePause(c)
             [] c.type = "Resume" -> HandleResume(c, resolve_ok)
             [] c.type = "Stop" -> HandleStop(c, answer)
    /\ cmd_queue' = Tail(cmd_queue)
    /\ event' = Ev("command", NoTrade)
    /\ UNCHANGED <<order_timestamps, db_orders, next_uuid, next_session, now, submissions, ledger, ws>>

-----------------------------------------------------------------------------
(* health_check, engine.rs:1232-1341                                       *)

(* Circuit breaker test, engine.rs:1249-1260; initial_capital > 0.         *)
UnrealizedValue(s) == SumOver(Assets, [a \in Assets |-> MulPrice(s.positions[a].shares, s.positions[a].price)])

LossExceeds(s) ==
    LET total_value == s.remaining_capital + UnrealizedValue(s)
        pnl == total_value - s.cfg.initial_capital
    IN  /\ s.cfg.max_loss_pct # NoVal
        /\ (0 - pnl) * 100 > s.cfg.max_loss_pct * s.cfg.initial_capital

(* open_gtc_orders entries with placed_at.elapsed() > GTC_TIMEOUT.         *)
Expired(s, at) == {g \in s.open_gtc_orders : at - g.placed_at > GTC_TIMEOUT}

(* The ids the exchange confirms for a cancel request of the set G:        *)
(* "all" of them, "none" (Ok with an empty list), only "one", or "err"     *)
(* for a failed request.                                                   *)
Confirmed(G, mode) ==
    CASE mode = "all" -> G
      [] mode = "one" -> {g \in G : \A h \in G : g.clob_id <= h.clob_id}
      [] OTHER -> {}

(* GTC expiry for one session, engine.rs:1275-1312.                        *)
ExpireGtc(sid, s, at, mode) ==
    LET expired == Expired(s, at)
        asked == expired # {} /\ clob_client # None
        canceled == IF asked THEN Confirmed(expired, mode) ELSE {}
    IN  [ sess |-> [s EXCEPT !.open_gtc_orders = @ \ canceled,
                             !.remaining_capital = @ + SumOver(canceled, [g \in canceled |-> g.usdc])],
          rows |-> {g.our_id : g \in canceled},
          out |-> IF asked THEN <<Out("cancel_expired", sid, mode, Cardinality(expired))>> ELSE << >> ]

(* One session of the pass, engine.rs:1241-1313: capital sync, then the    *)
(* breaker, then (unless it tripped) the expiry x.                         *)
Visited(acc, sid, s, x) ==
    IF LossExceeds(s)
    THEN [acc EXCEPT !.db = UpdateSessionCapital(@, sid, s.remaining_capital), !.to_stop = Append(@, sid)]
    ELSE [acc EXCEPT !.db = UpdateSessionCapital(@, sid, s.remaining_capital),
                     !.sessions[sid] = x.sess,
                     !.orders = UpdateOrderStatus(@, x.rows, "canceled"),
                     !.out = @ \o x.out]

(* The per-session pass over the map, in ascending id order (the visits    *)
(* do not depend on each other).                                           *)
RECURSIVE HealthPass(_, _, _, _, _)
HealthPass(q, i, at, mode, acc) ==
    IF i > Len(q) THEN acc
    ELSE HealthPass(q, i + 1, at, mode,
             Visited(acc, q[i], acc.sessions[q[i]], ExpireGtc(q[i], acc.sessions[q[i]], at, mode[q[i]])))

(* The auto-stops, engine.rs:1315-1336.                                    *)
RECURSIVE StopAll(_, _, _, _)
StopAll(q, i, mode, acc) ==
    IF i > Len(q) THEN acc
    ELSE StopAll(q, i + 1, mode,
             [acc EXCEPT !.sessions = Drop(@, {q[i]}),
                         !.db = UpdateSessionStatus(@, q[i], "stopped"),
                         !.out = @ \o CancelAllOut(q[i], acc.sessions[q[i]], mode[q[i]])
                                   \o <<Out("SessionStopped", q[i], "circuit_breaker", 0)>>])

(* Auto-stops that give up on a session when its cancel request fails.    *)
RECURSIVE StopAllBlocked(_, _, _, _)
StopAllBlocked(q, i, mode, acc) ==
    IF i > Len(q) THEN acc
    ELSE StopAllBlocked(q, i + 1, mode,
             IF CancelAllOut(q[i], acc.sessions[q[i]], mode[q[i]]) # << >> /\ mode[q[i]] = "err"
             THEN [acc EXCEPT !.out = @ \o CancelAllOut(q[i], acc.sessions[q[i]], mode[q[i]])]
             ELSE [acc EXCEPT !.sessions = Drop(@, {q[i]}),
                              !.db = UpdateSessionStatus(@, q[i], "stopped"),
                              !.out = @ \o CancelAllOut(q[i], acc.sessions[q[i]], mode[q[i]])
                                        \o <<Out("SessionStopped", q[i], "circuit_breaker", 0)>>])

StoppedUnlessBlocked(mode, pass) == StopAllBlocked(pass.to_stop, 1, mode, pass)

(* A tick that schedules the auto-stops and does not perform them.         *)
Unstopped(mode, pass) == pass

Stopped(mode, pass) == StopAll(pass.to_stop, 1, mode, pass)

HealthDone(done) ==
    /\ sessions' = done.sessions
    /\ db_sessions' = done.db
    /\ db_orders' = done.orders
    /\ watch' = IF done.to_stop # << >> THEN Published(done.sessions) ELSE watch
    /\ out' = done.out \o (IF done.to_stop # << >> THEN PublishOut ELSE << >>)
    /\ event' = Ev("health", NoTrade)
    /\ UNCHANGED <<order_timestamps, clob_client, cmd_queue, next_uuid, next_session, now, submissions, ledger, ws>>

HealthCheck(mode) ==
    HealthDone(Stopped(mode, HealthPass(SortedSeq(DOMAIN sessions), 1, now, mode,
                   [sessions |-> sessions, db |-> db_sessions, orders |-> db_orders, out |-> << >>, to_stop |-> << >>])))

(* The clock.                                                              *)
Advance(d) ==
    /\ now' = now + d
    /\ event' = Ev("time", NoTrade)
    /\ out' = << >>
    /\ UNCHANGED <<sessions, order_timestamps, clob_client, cmd_queue, watch, db_sessions, db_orders, next_uuid, next_session, submissions, ledger, ws>>

-----------------------------------------------------------------------------
(* HTTP handlers, copytrade.rs.  Requests come from the session's owner.   *)

Cmd(type, sid, owner) == [type |-> type, sid |-> sid, owner |-> owner]

(* create_session, copytrade.rs:19-120; cfg has passed the validations.    *)
CreateSession(cfg) ==
    LET sid == next_session
    IN  /\ db_sessions' = Put(db_sessions, sid, [cfg |-> cfg, status |-> "running", remaining_capital |-> cfg.initial_capital])
        /\ cmd_queue' = Append(cmd_queue, Cmd("Start", sid, cfg.owner))
        /\ next_session' = next_session + 1
        /\ event' = Ev("http", NoTrade)
        /\ out' = << >>
        /\ UNCHANGED <<sessions, order_timestamps, clob_client, watch, db_orders, next_uuid, now, submissions, ledger, ws>>

(* An update_session that does not look at the row's current status.      *)
UpdateSessionUnchecked(sid, action) ==
    /\ sid \in DOMAIN db_sessions
    /\ LET type == IF action = "pause" THEN "Pause" ELSE IF action = "resume" THEN "Resume" ELSE "Stop"
           status == IF action = "pause" THEN "paused" ELSE IF action = "resume" THEN "running" ELSE "stopped"
       IN  /\ db_sessions' = UpdateSessionStatus(db_sessions, sid, status)
           /\ cmd_queue' = Append(cmd_queue, Cmd(type, sid, db_sessions[sid].cfg.owner))
    /\ event' = Ev("http", NoTrade)
    /\ out' = << >>
    /\ UNCHANGED <<sessions, order_timestamps, clob_client, watch, db_orders, next_uuid, next_session, now, submissions, ledger, ws>>

(* update_session, copytrade.rs:169-256: the store first, then the command. *)
(* The handler does not suspend between reading the row and writing it.    *)
UpdateSession(sid, action) ==
    /\ sid \in DOMAIN db_sessions
    /\ LET current == db_sessions[sid].status
           owner == db_sessions[sid].cfg.owner
       IN  \/ /\ action = "pause"
              /\ current = "running"
              /\ db_sessions' = UpdateSessionStatus(db_sessions, sid, "paused")
              /\ cmd_queue' = Append(cmd_queue, Cmd("Pause", sid, owner))
           \/ /\ action = "resume"
              /\ current = "paused"
              /\ db_sessions' = UpdateSessionStatus(db_sessions, sid, "running")
              /\ cmd_queue' = Append(cmd_queue, Cmd("Resume", sid, owner))
           \/ /\ action = "stop"
              /\ current # "stopped"
              /\ db_sessions' = UpdateSessionStatus(db_sessions, sid, "stopped")
              /\ cmd_queue' = Append(cmd_queue, Cmd("Stop", sid, owner))
    /\ event' = Ev("http", NoTrade)
    /\ out' = << >>
    /\ UNCHANGED <<sessions, order_timestamps, clob_client, watch, db_orders, next_uuid, next_session, now, submissions, ledger, ws>>

(* A delete_session that does not look at the row's status.               *)
DeleteSessionAny(sid) ==
    /\ sid \in DOMAIN db_sessions
    /\ db_sessions' = Drop(db_sessions, {sid})
    /\ db_orders' = SelectSeq(db_orders, LAMBDA r : r.session_id # sid)
    /\ event' = Ev("http", NoTrade)
    /\ out' = << >>
    /\ UNCHANGED <<sessions, order_timestamps, clob_client, cmd_queue, watch, next_uuid, next_session, now, submissions, ledger, ws>>

(* delete_session, copytrade.rs:295-324; the order rows go with the        *)
(* session (ON DELETE CASCADE, db.rs:116).                                 *)
DeleteSession(sid) ==
    /\ sid \in DOMAIN db_sessions
    /\ db_sessions[sid].status = "stopped"
    /\ db_sessions' = Drop(db_sessions, {sid})
    /\ db_orders' = SelectSeq(db_orders, LAMBDA r : r.session_id # sid)
    /\ event' = Ev("http", NoTrade)
    /\ out' = << >>
    /\ UNCHANGED <<sessions, order_timestamps, clob_client, cmd_queue, watch, next_uuid, next_session, now, submissions, ledger, ws>>

(* close_position for a simulated session, copytrade.rs:358-421.           *)
CloseSimulated(sid, asset, net_shares) ==
    LET row == db_sessions[sid]
        fill_price == GetLastFillPrice(db_orders, sid, asset)
        size_usdc == MulPrice(net_shares, fill_price)
        order == OrderRow(next_uuid, sid, asset, "sell", fill_price, fill_price, size_usdc, net_shares, "simulated", fill_price, 0, NoVal, "close", now)
    IN  /\ fill_price > 0
        /\ db_orders' = Append(db_orders, order)
        /\ db_sessions' = UpdateSessionCapital(db_sessions, sid, row.remaining_capital + size_usdc)
        /\ out' = <<Out("OrderPlaced", sid, asset, next_uuid)>>
        /\ UNCHANGED submissions

(* close_position for a live session, copytrade.rs:423-546: a FOK sell of  *)
(* the net shares truncated to 2 decimals; a row only after a response.    *)
CloseLive(sid, asset, net_shares, e) ==
    LET shares_sent == (net_shares \div (Unit \div 100)) * (Unit \div 100)
        matched == e.post = "matched"
        answered == e.post \notin {"build_err", "post_err"}
        making == IF matched /\ e.fill > 0 THEN shares_sent ELSE 0
        taking == IF matched /\ e.fill > 0 THEN MulPrice(shares_sent, e.fill) ELSE 0
        fill_price == IF taking > 0 /\ making > 0 THEN DivPrice(taking, making) ELSE 0
        status == IF matched THEN "filled" ELSE "failed"
        order == OrderRow(next_uuid, sid, asset, "sell", fill_price, fill_price, taking, net_shares, status, (IF matched THEN fill_price ELSE NoVal), NoVal, next_uuid, "close", now)
    IN  /\ clob_client # None
        /\ db_orders' = IF answered THEN Append(db_orders, order) ELSE db_orders
        /\ submissions' = IF e.post # "build_err"
                          THEN Append(submissions, [sid |-> sid, asset |-> asset, side |-> "sell", at |-> now, via |-> "close"])
                          ELSE submissions
        /\ out' = IF e.post # "build_err" THEN <<Out("post", sid, asset, next_uuid)>> ELSE << >>
        /\ UNCHANGED db_sessions

(* close_position, copytrade.rs:330-547.  The session's status is not      *)
(* looked at.                                                              *)
ClosePosition(sid, asset, e) ==
    /\ sid \in DOMAIN db_sessions
    /\ LET net_shares == GetNetShares(db_orders, sid, asset)
       IN  /\ net_shares > 0
           /\ IF db_sessions[sid].cfg.simulate
              THEN CloseSimulated(sid, asset, net_shares)
              ELSE CloseLive(sid, asset, net_shares, e)
    /\ next_uuid' = next_uuid + 1
    /\ event' = Ev("http", NoTrade)
    /\ UNCHANGED <<sessions, order_timestamps, clob_client, cmd_queue, watch, next_session, now, ledger, ws>>

-----------------------------------------------------------------------------
(* The WS subscriber task, ws_subscriber.rs:116-377.  ws.pc is where the   *)
(* task stands, ws.addrs the set it was called with, ws.upstream the       *)
(* maker filters of the subscriptions it holds on its connection.          *)

WsStart == [pc |-> "warmup", addrs |-> {}, backoff |-> RECONNECT_BASE_DELAY, upstream |-> {}]

NextBackoff(b) == Min(b * 2, RECONNECT_MAX_DELAY)

WsUnchanged == UNCHANGED <<sessions, order_timestamps, clob_client, cmd_queue, db_sessions, db_orders, next_uuid, next_session, now, event, out, submissions, ledger>>

(* The sleep before the first subscription, ws_subscriber.rs:128.          *)
WsWarm ==
    /\ ws.pc = "warmup"
    /\ ws' = [ws EXCEPT !.pc = "run"]
    /\ UNCHANGED watch
    /\ WsUnchanged

(* Top of run's loop, ws_subscriber.rs:130-165: borrow_and_update, then    *)
(* wait on an empty set or enter subscribe_and_process.                    *)
WsRun ==
    /\ ws.pc = "run"
    /\ watch' = [watch EXCEPT !.unseen = FALSE]
    /\ ws' = IF watch.value = {}
             THEN [ws EXCEPT !.pc = "idle", !.addrs = {}]
             ELSE [ws EXCEPT !.pc = "loop", !.addrs = watch.value, !.backoff = RECONNECT_BASE_DELAY]
    /\ WsUnchanged

(* changed() returns in the idle wait, ws_subscriber.rs:135-139.           *)
WsWake ==
    /\ ws.pc = "idle"
    /\ watch.unseen
    /\ watch' = [watch EXCEPT !.unseen = FALSE]
    /\ ws' = [ws EXCEPT !.pc = "run"]
    /\ WsUnchanged

(* Top of subscribe_and_process's loop with a changed set,                 *)
(* ws_subscriber.rs:184-194.                                               *)
WsRecheck ==
    /\ ws.pc = "loop"
    /\ watch.unseen
    /\ watch' = [watch EXCEPT !.unseen = FALSE]
    /\ ws' = IF watch.value = {} \/ watch.value # ws.addrs
             THEN [ws EXCEPT !.pc = "run"]
             ELSE [ws EXCEPT !.pc = "connect"]
    /\ WsUnchanged

WsProceed ==
    /\ ws.pc = "loop"
    /\ ~watch.unseen
    /\ ws' = [ws EXCEPT !.pc = "connect"]
    /\ UNCHANGED watch
    /\ WsUnchanged

(* connect_async and eth_subscribe, ws_subscriber.rs:201-266: "refused"    *)
(* is a failed connect, "unconfirmed" a failed send, a rejection or no     *)
(* answer, "subscribed" a confirmed subscription.                          *)
WsConnect(result) ==
    /\ ws.pc = "connect"
    /\ ws' = CASE result = "refused" -> [ws EXCEPT !.pc = "sleep"]
               [] result = "unconfirmed" -> [ws EXCEPT !.pc = "sleep", !.backoff = RECONNECT_BASE_DELAY]
               [] OTHER -> [ws EXCEPT !.pc = "active", !.backoff = RECONNECT_BASE_DELAY, !.upstream = @ \cup {ws.addrs}]
    /\ UNCHANGED watch
    /\ WsUnchanged

(* sleep(backoff), then the delay doubles, capped.                         *)
WsSleep ==
    /\ ws.pc = "sleep"
    /\ ws' = [ws EXCEPT !.pc = "loop", !.backoff = NextBackoff(@)]
    /\ UNCHANGED watch
    /\ WsUnchanged

(* The stream ends or errors, ws_subscriber.rs:321-337.                    *)
WsDisconnect ==
    /\ ws.pc = "active"
    /\ ws' = [ws EXCEPT !.pc = "sleep", !.upstream = {}]
    /\ UNCHANGED watch
    /\ WsUnchanged

(* A subscriber that notes the change and keeps its subscription.          *)
WsChangedStays ==
    /\ ws.pc = "active"
    /\ watch.unseen
    /\ watch' = [watch EXCEPT !.unseen = FALSE]
    /\ UNCHANGED ws
    /\ WsUnchanged

(* changed() wins the select, ws_subscriber.rs:341-362: unsubscribe and    *)
(* return, which drops the connection.                                     *)
WsChanged ==
    /\ ws.pc = "active"
    /\ watch.unseen
    /\ watch' = [watch EXCEPT !.unseen = FALSE]
    /\ ws' = [ws EXCEPT !.pc = "run", !.upstream = {}]
    /\ WsUnchanged

-----------------------------------------------------------------------------
(* The message loop of the subscriber, ws_subscriber.rs:276-319, and       *)
(* decode_order_filled, ws_subscriber.rs:397-476.  A log is                *)
(* [removed, topics, maker, makerAssetId, takerAssetId, makerAmountFilled, *)
(* takerAmountFilled]; the amounts are raw, in 1/1000000.                  *)

RawPerUnit == 1000000 \div Unit

(* gamma_token_id of the market cache, ws_subscriber.rs:455-465.           *)
AssetName(id) == IF id = 1 THEN "A" ELSE "B"

(* The LiveTrade built from the chosen side, ws_subscriber.rs:436-473.     *)
Decoded(maker, side, asset_id, usdc_raw, token_raw) ==
    [ trader |-> maker, asset |-> AssetName(asset_id), side |-> side,
      price |-> IF token_raw > 0 THEN DivPrice(usdc_raw \div RawPerUnit, token_raw \div RawPerUnit) ELSE 0,
      usdc |-> usdc_raw \div RawPerUnit,
      amount |-> token_raw \div RawPerUnit ]

(* A decoder that reads a buy's amounts the wrong way round.               *)
DecodeSwapped(log) ==
    IF log.topics < 4 THEN NoTrade
    ELSE IF log.makerAssetId = 0
    THEN Decoded(log.maker, "buy", log.takerAssetId, log.takerAmountFilled, log.makerAmountFilled)
    ELSE IF log.takerAssetId = 0
    THEN Decoded(log.maker, "sell", log.makerAssetId, log.takerAmountFilled, log.makerAmountFilled)
    ELSE NoTrade

(* decode_order_filled: NoTrade stands for None.                           *)
DecodeOrderFilled(log) ==
    IF log.topics < 4 THEN NoTrade
    ELSE IF log.makerAssetId = 0
    THEN Decoded(log.maker, "buy", log.takerAssetId, log.makerAmountFilled, log.takerAmountFilled)
    ELSE IF log.takerAssetId = 0
    THEN Decoded(log.maker, "sell", log.makerAssetId, log.takerAmountFilled, log.makerAmountFilled)
    ELSE NoTrade

(* A log that sends nothing on copytrade_tx.                               *)
LogDropped ==
    /\ event' = Ev("log", NoTrade)
    /\ out' = << >>
    /\ UNCHANGED <<sessions, order_timestamps, clob_client, cmd_queue, watch, db_sessions, db_orders, next_uuid, next_session, now, submissions, ledger, ws>>

-----------------------------------------------------------------------------
(* Process start: server.rs:147-167 and the startup reload,                *)
(* engine.rs:205-252.                                                      *)

Reloaded(resolve_ok) ==
    LET running == {s \in DOMAIN db_sessions : db_sessions[s].status = "running" /\ resolve_ok}
    IN  [s \in running |-> NewActiveSession(db_sessions[s], ResolveSessionTraders(db_sessions[s].cfg), GetSessionPositions(db_orders, s))]

(* The process dies and is started again on the same store.                *)
Restart(resolve_ok) ==
    LET reloaded == Reloaded(resolve_ok)
    IN  /\ sessions' = reloaded
        /\ order_timestamps' = << >>
        /\ clob_client' = None
        /\ cmd_queue' = << >>
        /\ watch' = IF DOMAIN reloaded # {} THEN Published(reloaded) ELSE [value |-> {}, unseen |-> FALSE]
        /\ out' = IF DOMAIN reloaded # {} THEN PublishOut ELSE << >>
        /\ ws' = WsStart
        /\ event' = Ev("startup", NoTrade)
        /\ UNCHANGED <<db_sessions, db_orders, next_uuid, next_session, now, submissions, ledger>>

Init ==
    /\ sessions = << >>
    /\ order_timestamps = << >>
    /\ clob_client = None
    /\ cmd_queue = << >>
    /\ watch = [value |-> {}, unseen |-> FALSE]
    /\ db_sessions = << >>
    /\ db_orders = << >>
    /\ next_uuid = 1
    /\ next_session = 1
    /\ now = 0
    /\ event = Ev("startup", NoTrade)
    /\ out = << >>
    /\ submissions = << >>
    /\ ledger = << >>
    /\ ws = WsStart

-----------------------------------------------------------------------------
(* Specification of one session through its whole life, with the HTTP     *)
(* handlers and process restarts: a simulated or a live GTC configuration, *)
(* three source trades, a clock that jumps past the GTC timeout.           *)

MaxOrders == 2
MaxQueue == 2
MainSessions == 1
MaxTime == 3601

Usdc(n) == n * Unit

SimCfg ==
    [ owner |-> "o1", source |-> "L1", copy_pct |-> 100, max_position_usdc |-> Usdc(2),
      max_slippage_bps |-> 100, order_type |-> "FOK", initial_capital |-> Usdc(10),
      simulate |-> TRUE, max_loss_pct |-> 5 ]

GtcCfg ==
    [ owner |-> "o1", source |-> "L2", copy_pct |-> 100, max_position_usdc |-> Usdc(2),
      max_slippage_bps |-> 100, order_type |-> "GTC", initial_capital |-> Usdc(10),
      simulate |-> FALSE, max_loss_pct |-> 25 ]

Trade(trader, asset, side, price, usdc) == [trader |-> trader, asset |-> asset, side |-> side, price |-> price, usdc |-> usdc]

MainTrades ==
    { Trade("A1", "A", "buy", 500, Usdc(2)),
      Trade("A1", "A", "sell", 250, Usdc(2)),
      Trade("b1", "B", "buy", 500, Usdc(2)) }

(* The exchange quotes and matches at the source price.                    *)
MainEnvs(t) == {[quote |-> t.price, rnd |-> 1000, post |-> p, fill |-> t.price, ins_ok |-> TRUE] : p \in {"live", "matched", "rejected"}}

CancelAnswers == {"all", "none", "err"}

MainTrade ==
    /\ next_uuid <= MaxOrders
    /\ \E t \in MainTrades : \E q \in Orderings(Running(sessions)) : \E envs \in [Running(sessions) -> MainEnvs(t)] :
          RecvTrade(t, q, envs)

MainCommand == \E init_ok \in BOOLEAN : \E resolve_ok \in BOOLEAN : \E answer \in CancelAnswers : HandleCommand(init_ok, resolve_ok, answer)

MainHealth == \E mode \in [DOMAIN sessions -> CancelAnswers] : HealthCheck(mode)

MainAdvance == now + GTC_TIMEOUT + 1 <= MaxTime /\ Advance(GTC_TIMEOUT + 1)

MainCreate == next_session <= MainSessions /\ Len(cmd_queue) < MaxQueue /\ \E cfg \in {SimCfg, GtcCfg} : CreateSession(cfg)

MainUpdate == Len(cmd_queue) < MaxQueue /\ \E sid \in DOMAIN db_sessions : \E action \in {"pause", "resume", "stop"} : UpdateSession(sid, action)

MainDelete == \E sid \in DOMAIN db_sessions : DeleteSession(sid)

MainClose ==
    /\ next_uuid <= MaxOrders + 1
    /\ \E sid \in DOMAIN db_sessions : \E asset \in Assets : \E p \in {"matched", "rejected"} :
          ClosePosition(sid, asset, [post |-> p, fill |-> 500])

MainRestart == \E resolve_ok \in BOOLEAN : Restart(resolve_ok)

Next ==
    \/ MainTrade
    \/ MainCommand
    \/ MainHealth
    \/ MainAdvance
    \/ MainCreate
    \/ MainUpdate
    \/ MainDelete
    \/ MainClose
    \/ MainRestart

Spec == Init /\ [][Next]_vars

-----------------------------------------------------------------------------
(* Specification of the shared rate window and of dedup: up to four live   *)
(* FOK sessions copying the same trader, all started before the first      *)
(* trade, the exchange matching or rejecting what is posted, the same      *)
(* source trade arriving 0, 5 and 30 seconds apart.  The map is iterated   *)
(* in ascending id order.                                                  *)

RateSessions == 4
RateOrders == 12

FokCfg ==
    [ owner |-> "o1", source |-> "L1", copy_pct |-> 100, max_position_usdc |-> Usdc(2),
      max_slippage_bps |-> 100, order_type |-> "FOK", initial_capital |-> Usdc(10),
      simulate |-> FALSE, max_loss_pct |-> NoVal ]

RateTrades == {Trade("A1", "A", "buy", 500, Usdc(2))}

RateEnvs(t) == {[quote |-> t.price, rnd |-> 1000, post |-> p, fill |-> t.price, ins_ok |-> TRUE] : p \in {"matched", "rejected"}}

RateCreate == next_session <= RateSessions /\ cmd_queue = << >> /\ next_uuid = 1 /\ CreateSession(FokCfg)

RateCommand == HandleCommand(TRUE, TRUE, "none")

RateTrade ==
    /\ next_uuid + Cardinality(Running(sessions)) <= RateOrders + 1
    /\ \E t \in RateTrades : \E e \in RateEnvs(t) :
          RecvTrade(t, SortedSeq(Running(sessions)), [sid \in Running(sessions) |-> e])

RateAdvance ==
    \/ now = 0 /\ Advance(5)
    \/ now = 5 /\ Advance(DEDUP_WINDOW - 5)

NextRate ==
    \/ RateCreate
    \/ RateCommand
    \/ RateTrade
    \/ RateAdvance

SpecRate == Init /\ [][NextRate]_vars

-----------------------------------------------------------------------------
(* Specification of simulated accounting: one simulated session copying    *)
(* half of each source trade, buys and sells of the same asset at          *)
(* different prices, the random slippage at both ends of its range, user   *)
(* commands and health ticks in between.  No client is ever initialised,   *)
(* so the fill price is the source price moved by the random factor.       *)

SimSessions == 1
SimOrders == 3
SimTime == 62

HalfCfg ==
    [ owner |-> "o1", source |-> "L1", copy_pct |-> 50, max_position_usdc |-> Usdc(4),
      max_slippage_bps |-> 100, order_type |-> "FOK", initial_capital |-> Usdc(10),
      simulate |-> TRUE, max_loss_pct |-> NoVal ]

SimTrades ==
    { Trade("A1", "A", "buy", 500, Usdc(4)),
      Trade("A1", "A", "buy", 250, Usdc(4)),
      Trade("A1", "A", "sell", 400, Usdc(2)),
      Trade("A1", "B", "buy", 300, Usdc(3)) }

SimEnvs(t) == {[quote |-> NoVal, rnd |-> r, post |-> "matched", fill |-> t.price, ins_ok |-> TRUE] : r \in {995, 1005}}

SimCreate == next_session <= SimSessions /\ cmd_queue = << >> /\ CreateSession(HalfCfg)

SimCommand == \E resolve_ok \in BOOLEAN : HandleCommand(TRUE, resolve_ok, "none")

SimTrade ==
    /\ next_uuid <= SimOrders
    /\ \E t \in SimTrades : \E e \in SimEnvs(t) :
          RecvTrade(t, SortedSeq(Running(sessions)), [sid \in Running(sessions) |-> e])

SimUpdate == cmd_queue = << >> /\ \E sid \in DOMAIN db_sessions : \E action \in {"pause", "resume", "stop"} : UpdateSession(sid, action)

SimHealth == HealthCheck([sid \in DOMAIN sessions |-> "none"])

SimAdvance == now + DEDUP_WINDOW + 1 <= SimTime /\ Advance(DEDUP_WINDOW + 1)

NextSim ==
    \/ SimCreate
    \/ SimCommand
    \/ SimTrade
    \/ SimUpdate
    \/ SimHealth
    \/ SimAdvance

SpecSim == Init /\ [][NextSim]_vars

-----------------------------------------------------------------------------
(* Specification of the tracked set: two simulated sessions following      *)
(* different traders (a list and the top-N), every command, trades that    *)
(* take the first session over its loss limit, health ticks, deletes and   *)
(* process restarts.                                                       *)

WatchSessions == 2
WatchOrders == 2

TopCfg ==
    [ owner |-> "o2", source |-> "top", copy_pct |-> 100, max_position_usdc |-> Usdc(2),
      max_slippage_bps |-> 100, order_type |-> "FOK", initial_capital |-> Usdc(10),
      simulate |-> TRUE, max_loss_pct |-> NoVal ]

WatchEnv(t) == [quote |-> NoVal, rnd |-> 1000, post |-> "matched", fill |-> t.price, ins_ok |-> TRUE]

WatchCreate ==
    /\ next_session <= WatchSessions
    /\ cmd_queue = << >>
    /\ CreateSession(IF next_session = 1 THEN SimCfg ELSE TopCfg)

WatchCommand == \E resolve_ok \in BOOLEAN : HandleCommand(TRUE, resolve_ok, "none")

WatchTrade ==
    /\ next_uuid <= WatchOrders
    /\ \E t \in MainTrades :
          RecvTrade(t, SortedSeq(Running(sessions)), [sid \in Running(sessions) |-> WatchEnv(t)])

WatchUpdate == cmd_queue = << >> /\ \E sid \in DOMAIN db_sessions : \E action \in {"pause", "resume", "stop"} : UpdateSession(sid, action)

WatchDelete == \E sid \in DOMAIN db_sessions : DeleteSession(sid)

WatchHealth == HealthCheck([sid \in DOMAIN sessions |-> "none"])

WatchRestart == \E resolve_ok \in BOOLEAN : Restart(resolve_ok)

NextWatch ==
    \/ WatchCreate
    \/ WatchCommand
    \/ WatchTrade
    \/ WatchUpdate
    \/ WatchDelete
    \/ WatchHealth
    \/ WatchRestart

SpecWatch == Init /\ [][NextWatch]_vars

-----------------------------------------------------------------------------
(* Specification of the WS subscriber next to the engine: the two sessions *)
(* above are created, paused, resumed and stopped, each command            *)
(* republishing the tracked set, while the subscriber task runs.  The      *)
(* task is scheduled (weak fairness on each of its steps); it keeps        *)
(* retrying, and the upstream accepts a subscription if asked again and    *)
(* again (strong fairness on the confirmed subscription).                  *)

FollowCreate ==
    /\ next_session <= WatchSessions
    /\ cmd_queue = << >>
    /\ CreateSession(IF next_session = 1 THEN SimCfg ELSE TopCfg)

FollowCommand == HandleCommand(TRUE, TRUE, "none")

FollowUpdate == cmd_queue = << >> /\ \E sid \in DOMAIN db_sessions : \E action \in {"pause", "resume", "stop"} : UpdateSession(sid, action)

WsRefused == WsConnect("refused")

WsUnconfirmed == WsConnect("unconfirmed")

WsSubscribed == WsConnect("subscribed")

NextWs ==
    \/ FollowCreate
    \/ FollowCommand
    \/ FollowUpdate
    \/ WsWarm
    \/ WsRun
    \/ WsWake
    \/ WsRecheck
    \/ WsProceed
    \/ WsRefused
    \/ WsUnconfirmed
    \/ WsSubscribed
    \/ WsSleep
    \/ WsDisconnect
    \/ WsChanged

SpecWs ==
    /\ Init
    /\ [][NextWs]_vars
    /\ WF_vars(FollowCommand)
    /\ WF_vars(WsWarm) /\ WF_vars(WsRun) /\ WF_vars(WsWake) /\ WF_vars(WsRecheck)
    /\ WF_vars(WsProceed) /\ WF_vars(WsSleep) /\ WF_vars(WsChanged)
    /\ SF_vars(WsSubscribed)

-----------------------------------------------------------------------------
(* Specification of the slippage gate: a live FOK session (1% tolerance)   *)
(* and a simulated session (4% tolerance) follow the same trader; the      *)
(* book of each asset stands at one price while the source trades fill     *)
(* around it, so that some trades pass the gate of both sessions, some of  *)
(* one, some of none.  The live session starts first and initialises the   *)
(* client both sessions are quoted through.                                *)

SlipSessions == 2
SlipOrders == 4
SlipTime == 62

WideCfg ==
    [ owner |-> "o1", source |-> "L1", copy_pct |-> 100, max_position_usdc |-> Usdc(2),
      max_slippage_bps |-> 400, order_type |-> "FOK", initial_capital |-> Usdc(10),
      simulate |-> TRUE, max_loss_pct |-> NoVal ]

SlipTrades ==
    { Trade("A1", "A", "buy", 500, Usdc(2)),
      Trade("A1", "A", "buy", 480, Usdc(2)),
      Trade("A1", "A", "buy", 490, Usdc(2)),
      Trade("A1", "A", "sell", 520, Usdc(2)),
      Trade("A1", "A", "sell", 510, Usdc(2)) }

SlipQuote(asset) == IF asset = "A" THEN 500 ELSE 300

(* The market order is matched at the quoted price or, the book having    *)
(* moved, 10% above it.                                                    *)
SlipEnvs(t) ==
    {[quote |-> SlipQuote(t.asset), rnd |-> 1000, post |-> "matched", fill |-> f, ins_ok |-> TRUE] :
        f \in {SlipQuote(t.asset), (SlipQuote(t.asset) * 110) \div 100}}

SlipCreate ==
    /\ next_session <= SlipSessions
    /\ cmd_queue = << >>
    /\ CreateSession(IF next_session = 1 THEN FokCfg ELSE WideCfg)

SlipTrade ==
    /\ next_uuid <= SlipOrders
    /\ \E t \in SlipTrades : \E e \in SlipEnvs(t) :
          RecvTrade(t, SortedSeq(Running(sessions)), [sid \in Running(sessions) |-> e])

SlipAdvance == now + DEDUP_WINDOW + 1 <= SlipTime /\ Advance(DEDUP_WINDOW + 1)

NextSlip ==
    \/ SlipCreate
    \/ RateCommand
    \/ SlipTrade
    \/ SlipAdvance

SpecSlip == Init /\ [][NextSlip]_vars

-----------------------------------------------------------------------------
(* Specification of sizing: one simulated session following two traders    *)
(* with a 3 USDC position cap and 10 USDC of capital, source buys of 2 and *)
(* of 6 USDC, so that the source amount, the cap and the per-trader budget *)
(* each get to decide the size of an order.                                *)

SizeOrders == 4
SizeTime == 62

CapCfg ==
    [ owner |-> "o1", source |-> "L2", copy_pct |-> 100, max_position_usdc |-> Usdc(3),
      max_slippage_bps |-> 100, order_type |-> "FOK", initial_capital |-> Usdc(10),
      simulate |-> TRUE, max_loss_pct |-> NoVal ]

SizeTrades ==
    { Trade("A1", "A", "buy", 500, Usdc(2)),
      Trade("A1", "A", "buy", 500, Usdc(6)),
      Trade("b1", "B", "buy", 500, Usdc(6)),
      Trade("A1", "A", "sell", 500, Usdc(6)) }

SizeCreate == next_session = 1 /\ CreateSession(CapCfg)

SizeTrade ==
    /\ next_uuid <= SizeOrders
    /\ \E t \in SizeTrades : \E e \in SimEnvs(t) :
          RecvTrade(t, SortedSeq(Running(sessions)), [sid \in Running(sessions) |-> e])

SizeAdvance == now + DEDUP_WINDOW + 1 <= SizeTime /\ Advance(DEDUP_WINDOW + 1)

NextSize ==
    \/ SizeCreate
    \/ RateCommand
    \/ SizeTrade
    \/ SizeAdvance

SpecSize == Init /\ [][NextSize]_vars

-----------------------------------------------------------------------------
(* Specification of commands: two live FOK sessions of two owners, posts   *)
(* that match or are rejected, a minute of time, and a command channel     *)
(* that takes any command for the first session's id, each sent twice.     *)
(* The client initialises and the traders resolve every time, so the two   *)
(* deliveries of a command meet the same surroundings.                     *)

PairSessions == 2
PairOrders == 4

OtherCfg == [FokCfg EXCEPT !.owner = "o2"]

PairTrades == {Trade("A1", "A", "buy", 500, Usdc(2)), Trade("A1", "A", "sell", 500, Usdc(2))}

PairCreate == next_session <= PairSessions /\ cmd_queue = << >> /\ CreateSession(IF next_session = 1 THEN FokCfg ELSE OtherCfg)

(* CopyTradeCommand values arriving on cmd_rx, engine.rs:283-341: the same  *)
(* command sent twice to an idle engine.                                   *)
PairSend ==
    /\ cmd_queue = << >>
    /\ \E type \in {"Start", "Pause", "Resume", "Stop"} :
          LET c == Cmd(type, 1, FokCfg.owner)
          IN  cmd_queue' = <<c, c>>
    /\ event' = Ev("http", NoTrade)
    /\ out' = << >>
    /\ UNCHANGED <<sessions, order_timestamps, clob_client, watch, db_sessions, db_orders, next_uuid, next_session, now, submissions, ledger, ws>>

PairTrade ==
    /\ next_uuid <= PairOrders
    /\ \E t \in PairTrades : \E e \in RateEnvs(t) :
          RecvTrade(t, SortedSeq(Running(sessions)), [sid \in Running(sessions) |-> e])

PairAdvance == now = 0 /\ Advance(COOLDOWN_DURATION + 1)

NextPair ==
    \/ PairCreate
    \/ RateCommand
    \/ PairSend
    \/ PairTrade
    \/ PairAdvance

SpecPair == Init /\ [][NextPair]_vars

-----------------------------------------------------------------------------
(* Specification of the exchange's answers to a live order: one live       *)
(* session, a buy and a sell of the same asset, every kind of answer of    *)
(* post_order, matched at the source price or at 0.400.                    *)

RespOrders == 3

RespEnvs(t) ==
    {[quote |-> t.price, rnd |-> 1000, post |-> p, fill |-> f, ins_ok |-> TRUE] :
        p \in {"matched", "live", "unmatched", "rejected", "post_err"}, f \in {t.price, 400}}

RespCreate == next_session = 1 /\ CreateSession(GtcCfg)

RespTrade ==
    /\ next_uuid <= RespOrders
    /\ \E t \in PairTrades : \E e \in RespEnvs(t) :
          RecvTrade(t, SortedSeq(Running(sessions)), [sid \in Running(sessions) |-> e])

NextResp ==
    \/ RespCreate
    \/ RateCommand
    \/ RespTrade
    \/ SlipAdvance

SpecResp == Init /\ [][NextResp]_vars

-----------------------------------------------------------------------------
(* Specification of the gates of process_trade: four live FOK sessions     *)
(* copying the same trader and trading in step, source trades that pass    *)
(* and source trades that each gate refuses, a quote that is missing or    *)
(* far from the source price, the same trade 0, 5 and 30 seconds apart.    *)

SkipOrders == 13

SkipTrades ==
    { Trade("A1", "A", "buy", 500, Usdc(2)),
      Trade("A1", "B", "buy", 500, Usdc(2)),
      Trade("b1", "A", "buy", 500, Usdc(2)),
      Trade("A1", "A", "buy", 0, Usdc(2)),
      Trade("A1", "A", "buy", 500, Usdc(1) \div 2) }

SkipEnvs(t) ==
    {[quote |-> q, rnd |-> 1000, post |-> p, fill |-> t.price, ins_ok |-> TRUE] :
        q \in {t.price, NoVal, 600}, p \in {"matched", "rejected"}}

SkipTrade ==
    /\ next_uuid <= SkipOrders
    /\ Cardinality(Running(sessions)) = RateSessions
    /\ \E t \in SkipTrades : \E e \in SkipEnvs(t) :
          RecvTrade(t, SortedSeq(Running(sessions)), [sid \in Running(sessions) |-> e])

NextSkip ==
    \/ RateCreate
    \/ RateCommand
    \/ SkipTrade
    \/ RateAdvance

SpecSkip == Init /\ [][NextSkip]_vars

-----------------------------------------------------------------------------
(* Specification of the decoding of OrderFilled logs: one simulated        *)
(* session following a1, the subscriber brought to its message loop, logs  *)
(* of every shape arriving on the subscription, the decoded trades handed  *)
(* to the engine.                                                          *)

DecodeOrders == 2

Logs ==
    [ removed : BOOLEAN, topics : {3, 4}, maker : {"A1"},
      makerAssetId : {0, 1}, takerAssetId : {0, 1},
      makerAmountFilled : {2000000, 4000000}, takerAmountFilled : {0, 4000000} ]
    \ {log \in [ removed : BOOLEAN, topics : {3, 4}, maker : {"A1"},
                  makerAssetId : {0, 1}, takerAssetId : {0, 1},
                  makerAmountFilled : {2000000, 4000000}, takerAmountFilled : {0, 4000000} ] :
          log.makerAssetId = 0 /\ log.takerAssetId = 0}

(* One message of the inner loop, ws_subscriber.rs:276-319.                *)
WsLog(log) ==
    /\ ws.pc = "active"
    /\ next_uuid <= DecodeOrders
    /\ IF log.removed \/ DecodeOrderFilled(log) = NoTrade
       THEN LogDropped
       ELSE \E e \in SimEnvs(DecodeOrderFilled(log)) :
               RecvTrade(DecodeOrderFilled(log), SortedSeq(Running(sessions)), [sid \in Running(sessions) |-> e])

DecodeLog == \E log \in Logs : WsLog(log)

NextDecode ==
    \/ SizeCreate
    \/ RateCommand
    \/ WsWarm
    \/ WsRun
    \/ WsWake
    \/ WsProceed
    \/ WsSubscribed
    \/ DecodeLog
    \/ SizeAdvance

SpecDecode == Init /\ [][NextDecode]_vars

-----------------------------------------------------------------------------
(* Specification of exhausted capital: one simulated session following one *)
(* trader with 3 USDC of capital and a 3 USDC position cap, so that one    *)
(* copied buy can spend everything.                                        *)

LowCfg == [CapCfg EXCEPT !.source = "L1", !.initial_capital = Usdc(3)]

LowCreate == next_session = 1 /\ CreateSession(LowCfg)

NextLow ==
    \/ LowCreate
    \/ RateCommand
    \/ SizeTrade
    \/ SizeAdvance

SpecLow == Init /\ [][NextLow]_vars

-----------------------------------------------------------------------------
(* Specification of a simulated session that runs out of capital: the      *)
(* session of SpecLow with the owner's pause, resume and stop and the      *)
(* health ticks.                                                           *)

NextDrain ==
    \/ LowCreate
    \/ RateCommand
    \/ SimUpdate
    \/ SizeTrade
    \/ SimHealth
    \/ SizeAdvance

SpecDrain == Init /\ [][NextDrain]_vars

-----------------------------------------------------------------------------
(* Specification of the life of resting orders: the session of Spec with   *)
(* its trades, commands, owner's requests, health ticks and clock, without *)
(* deletions and restarts.  The engine loop keeps taking the commands that *)
(* are queued, the health interval keeps ticking, time keeps passing.      *)

NextGtc ==
    \/ MainCreate
    \/ MainCommand
    \/ MainUpdate
    \/ MainTrade
    \/ MainHealth
    \/ MainAdvance

SpecGtc ==
    /\ Init
    /\ [][NextGtc]_vars
    /\ WF_vars(MainCommand)
    /\ WF_vars(MainHealth)
    /\ WF_vars(MainAdvance)

-----------------------------------------------------------------------------
(* Claims                                                                  *)

OrdersOf(orders, sid) == SelectSeq(orders, LAMBDA r : r.session_id = sid)

(* A session the store holds as stopped and the engine has let go of: not  *)
(* in the active map, no command for it still queued.                      *)
StoppedForGood(sid) ==
    /\ sid \in DOMAIN db_sessions
    /\ db_sessions[sid].status = "stopped"
    /\ sid \notin DOMAIN sessions
    /\ \A i \in DOMAIN cmd_queue : cmd_queue[i].sid # sid

(* C1: once a session is Stopped, no later trade, command, health tick or  *)
(* HTTP request (close-position included) inserts an order row for it or   *)
(* changes its remaining_capital or its positions.                         *)
C1_StoppedIsFrozen ==
    [][\A sid \in DOMAIN db_sessions :
          (StoppedForGood(sid) /\ sid \in DOMAIN db_sessions')
          => /\ OrdersOf(db_orders', sid) = OrdersOf(db_orders, sid)
             /\ db_sessions'[sid].remaining_capital = db_sessions[sid].remaining_capital
             /\ GetSessionPositions(db_orders', sid) = GetSessionPositions(db_orders, sid)
             /\ sid \notin DOMAIN sessions']_vars

EngineSubmissions == {i \in DOMAIN submissions : submissions[i].via = "engine"}

(* C2: any two orders of a session actually submitted (posted to the       *)
(* exchange or simulated) for the same (asset_id, side) are at least 30    *)
(* seconds apart.                                                          *)
C2_SubmissionsThirtyApart ==
    \A i, j \in EngineSubmissions :
        (i < j /\ submissions[i].sid = submissions[j].sid
               /\ submissions[i].asset = submissions[j].asset
               /\ submissions[i].side = submissions[j].side)
        => submissions[j].at - submissions[i].at >= DEDUP_WINDOW

(* C3: in every rolling 60-second window at most 10 orders are submitted   *)
(* (posted or simulated, whatever their outcome), over all sessions.       *)
C3_TenPerMinute ==
    \A i \in EngineSubmissions :
        Cardinality({j \in EngineSubmissions : j <= i /\ submissions[i].at - submissions[j].at < RATE_WINDOW}) <= MAX_ORDERS_PER_MINUTE

(* What the claim's left-hand side measures of an active session: cash     *)
(* plus the open shares at the price of the last fill.                     *)
MarkedValue(s) == s.remaining_capital + UnrealizedValue(s)

BookedCost(b) == SumOver(Assets, b.cost)

(* Rounding allowed: each fill truncates shares, cost and basis once.      *)
Tolerance == 3 * SimOrders + 2

(* C4 as stated: for every active simulated session, remaining_capital     *)
(* plus the open shares at their last fill price equals initial_capital    *)
(* plus the realized P&L of the average-cost book, up to rounding.         *)
C4_AccountingAsStated ==
    \A sid \in DOMAIN sessions :
        sessions[sid].cfg.simulate
        => Abs(MarkedValue(sessions[sid])
               - (sessions[sid].cfg.initial_capital + BookOf(ledger, sid).realized)) <= Tolerance

(* C4 amended: the identity holds once the unrealized P&L of the open      *)
(* shares (their value at the last fill price minus their average cost)    *)
(* is added to the right-hand side.                                        *)
C4_AccountingWithUnrealized ==
    \A sid \in DOMAIN sessions :
        sessions[sid].cfg.simulate
        => Abs(MarkedValue(sessions[sid])
               - (sessions[sid].cfg.initial_capital + BookOf(ledger, sid).realized
                  + (UnrealizedValue(sessions[sid]) - BookedCost(BookOf(ledger, sid))))) <= Tolerance

(* A simulated session that has realized a profit or loss and still holds  *)
(* shares bought at two prices.                                            *)
C4_Witness ==
    \E sid \in DOMAIN sessions :
        /\ sessions[sid].cfg.simulate
        /\ BookOf(ledger, sid).realized # 0
        /\ sessions[sid].positions["A"].shares > 0
        /\ Cardinality({i \in DOMAIN db_orders : db_orders[i].session_id = sid /\ db_orders[i].side = "buy" /\ db_orders[i].asset_id = "A"}) >= 2

(* C5: a process restart between two events leaves every session that is  *)
(* reloaded with the remaining_capital and the positions it had in memory  *)
(* before, so that the rest of the trade stream is applied to the same     *)
(* state as in a run without the crash.                                    *)
C5_RestartEquivalence ==
    [][event'.kind = "startup"
       => \A sid \in DOMAIN sessions \cap DOMAIN sessions' :
             /\ sessions'[sid].remaining_capital = sessions[sid].remaining_capital
             /\ sessions'[sid].positions = sessions[sid].positions]_vars

(* The gates of process_trade before the execution: filter, cooldown,      *)
(* dedup, sizing, capital and the rate limit.                              *)
PassesGates(s, t, ots, at) ==
    /\ ToLower(t.trader) \in s.traders
    /\ ~(s.cooldown_until # NoTime /\ at < s.cooldown_until)
    /\ ~(s.recent_orders[DedupKey(t)] # NoTime /\ at - s.recent_orders[DedupKey(t)] < DEDUP_WINDOW)
    /\ t.price > 0 /\ t.usdc > 0
    /\ SizeOrder(t, s) >= MIN_ORDER_USDC
    /\ ~(t.side = "buy" /\ s.remaining_capital < SizeOrder(t, s))
    /\ Len(Retained(ots, at)) < MAX_ORDERS_PER_MINUTE

PostedFor(sid, o) == \E i \in DOMAIN o : o[i].type = "post" /\ o[i].sid = sid

(* C6: whenever the engine handles a source trade, every Running           *)
(* non-simulated session that the trade passes the gates of has an order   *)
(* posted to the exchange, whether the session was started by a command    *)
(* or reloaded at startup.                                                 *)
C6_LiveSessionPosts ==
    [][event'.kind = "trade"
       => \A sid \in Running(sessions) :
             (~sessions[sid].cfg.simulate /\ PassesGates(sessions[sid], event'.trade, order_timestamps, now))
             => PostedFor(sid, out')]_vars

(* The claim's loss test: 100 * (initial - (remaining + sum of shares *    *)
(* last fill price)) / initial > max_loss_pct.                             *)
LossPctAbove(s) ==
    /\ s.cfg.max_loss_pct # NoVal
    /\ 100 * (s.cfg.initial_capital - (s.remaining_capital + UnrealizedValue(s))) > s.cfg.max_loss_pct * s.cfg.initial_capital

OutsOf(o, type, sid) == {i \in DOMAIN o : o[i].type = type /\ o[i].sid = sid}

(* C9: at a health tick every active session whose loss is above its       *)
(* max_loss_pct leaves the map, its stored row (if there still is one) is  *)
(* Stopped, a cancel covering all its open GTC orders has been requested,  *)
(* exactly one SessionStopped(circuit_breaker) is emitted for it and the   *)
(* tracked set is republished; every other session stays in the map with   *)
(* its stored status untouched.                                            *)
C9_CircuitBreaker ==
    [][event'.kind = "health"
       => \A sid \in DOMAIN sessions :
             IF LossPctAbove(sessions[sid])
             THEN /\ sid \notin DOMAIN sessions'
                  /\ sid \in DOMAIN db_sessions' => db_sessions'[sid].status = "stopped"
                  /\ sessions[sid].open_gtc_orders # {}
                        => \E i \in OutsOf(out', "cancel_all", sid) : out'[i].n = Cardinality(sessions[sid].open_gtc_orders)
                  /\ Cardinality({i \in OutsOf(out', "SessionStopped", sid) : out'[i].arg = "circuit_breaker"}) = 1
                  /\ out'[Len(out')].type = "publish"
                  /\ watch' = [value |-> TrackedUnion(sessions'), unseen |-> TRUE]
             ELSE /\ sid \in DOMAIN sessions'
                  /\ OutsOf(out', "SessionStopped", sid) = {}
                  /\ sid \in DOMAIN db_sessions => db_sessions'[sid].status = db_sessions[sid].status]_vars

(* A health tick has just stopped a session that had GTC orders resting.   *)
C9_Witness ==
    /\ event.kind = "health"
    /\ \E i, j \in DOMAIN out :
          /\ out[i].type = "cancel_all"
          /\ out[j].type = "SessionStopped" /\ out[j].arg = "circuit_breaker" /\ out[j].sid = out[i].sid

(* The answer of the exchange to the cancel requested for a session at a   *)
(* health tick, "none" when nothing was requested.                         *)
CancelAnswer(o, sid) ==
    IF OutsOf(o, "cancel_expired", sid) \cup OutsOf(o, "cancel_all", sid) = {} THEN "none"
    ELSE o[CHOOSE i \in OutsOf(o, "cancel_expired", sid) \cup OutsOf(o, "cancel_all", sid) : TRUE].arg

RowStatus(orders, id) ==
    IF \E i \in DOMAIN orders : orders[i].id = id
    THEN orders[CHOOSE i \in DOMAIN orders : orders[i].id = id].status
    ELSE "absent"

(* C10: at a health tick, for every session with open GTC orders older     *)
(* than GTC_TIMEOUT a cancel is requested; each order the exchange         *)
(* confirms as canceled has its row set to Canceled and is no longer       *)
(* open, and the session's capital grows by the amounts recorded for the   *)
(* confirmed orders; every other open order stays as it was.               *)
C10_GtcExpiry ==
    [][event'.kind = "health"
       => \A sid \in DOMAIN sessions :
             LET s == sessions[sid]
                 expired == Expired(s, now)
                 confirmed == Confirmed(expired, CancelAnswer(out', sid))
             IN  /\ expired # {} => OutsOf(out', "cancel_expired", sid) \cup OutsOf(out', "cancel_all", sid) # {}
                 /\ \A g \in confirmed :
                       /\ RowStatus(db_orders', g.our_id) \in {"canceled", "absent"}
                       /\ sid \in DOMAIN sessions' => g \notin sessions'[sid].open_gtc_orders
                 /\ sid \in DOMAIN sessions'
                       => /\ sessions'[sid].remaining_capital
                               = s.remaining_capital + SumOver(confirmed, [g \in confirmed |-> g.usdc])
                          /\ s.open_gtc_orders \ confirmed \subseteq sessions'[sid].open_gtc_orders
                 /\ \A g \in s.open_gtc_orders \ confirmed :
                       RowStatus(db_orders', g.our_id) = RowStatus(db_orders, g.our_id)]_vars

(* C7: in every state the engine leaves behind, the watch holds the        *)
(* lowercased union of the traders of the active sessions whose status is  *)
(* Running.                                                                *)
C7_WatchIsRunningUnion ==
    watch.value = {ToLower(a) : a \in UNION {sessions[sid].traders : sid \in {x \in DOMAIN sessions : sessions[x].status = "running"}}}

(* Two active sessions, one of them paused, the other one tracked.         *)
C7_Witness ==
    /\ \E x, y \in DOMAIN sessions : sessions[x].status = "paused" /\ sessions[y].status = "running"
    /\ watch.value = {"b1"}
    /\ event.kind = "command"

TrackedSets == SUBSET {"a1", "b1"}

RowSide(orders, id) ==
    IF \E i \in DOMAIN orders : orders[i].id = id
    THEN orders[CHOOSE i \in DOMAIN orders : orders[i].id = id].side
    ELSE "absent"

ReservedFor(orders, g) == IF RowSide(orders, g.our_id) = "buy" THEN g.usdc ELSE 0

(* C11: a health tick that removes resting GTC orders from a session gives *)
(* back exactly what their placement reserved (order_usdc for a buy,       *)
(* nothing for a sell), so that place-then-expire leaves remaining_capital *)
(* where it was.                                                           *)
C11_ReservationConserved ==
    [][event'.kind = "health"
       => \A sid \in DOMAIN sessions \cap DOMAIN sessions' :
             LET gone == sessions[sid].open_gtc_orders \ sessions'[sid].open_gtc_orders
             IN  (\A g \in gone : RowSide(db_orders, g.our_id) # "absent")
                 => sessions'[sid].remaining_capital
                      = sessions[sid].remaining_capital + SumOver(gone, [g \in gone |-> ReservedFor(db_orders, g)])]_vars

(* The Running sessions a trade reaches the slippage gate of and does not  *)
(* pass it: the gates before are passed, a quote is available, and the     *)
(* quote is further from the source price than the session allows.         *)
Gated(t) ==
    {sid \in Running(sessions) :
        /\ clob_client # None
        /\ PassesGates(sessions[sid], t, order_timestamps, now)
        /\ SlippageExceeds(t.side, SlipQuote(t.asset), t.price, sessions[sid].cfg.max_slippage_bps)}

(* C12: a trade stopped by the slippage gate of a session posts no order   *)
(* for it, writes no row, leaves its capital, positions and dedup stamp as *)
(* they were, and adds nothing to the rate window (which grows by at most  *)
(* one entry per session that was not stopped).                            *)
C12_SlippageGate ==
    [][event'.kind = "trade"
       => /\ \A sid \in Gated(event'.trade) :
                /\ ~PostedFor(sid, out')
                /\ OrdersOf(db_orders', sid) = OrdersOf(db_orders, sid)
                /\ sessions'[sid].remaining_capital = sessions[sid].remaining_capital
                /\ sessions'[sid].positions = sessions[sid].positions
                /\ sessions'[sid].recent_orders = sessions[sid].recent_orders
          /\ Len(order_timestamps') <= Len(order_timestamps) + Cardinality(Running(sessions) \ Gated(event'.trade))]_vars

(* A sell 384 bps under the book has just been stopped for the live        *)
(* session and filled for the simulated one.                               *)
C12_Witness ==
    /\ event.kind = "trade"
    /\ event.trade.price = 520
    /\ \E i \in DOMAIN out : out[i].type = "quote" /\ out[i].sid = 1
    /\ ~PostedFor(1, out)
    /\ \E i \in DOMAIN out : out[i].type = "OrderFilled" /\ out[i].sid = 2

(* C13: every order row that is Filled, Simulated or Submitted and carries *)
(* a slippage has it within its session's max_slippage_bps, in absolute    *)
(* value.                                                                  *)
C13_SlippageBounded ==
    \A i \in DOMAIN db_orders :
        (/\ db_orders[i].status \in {"filled", "simulated", "submitted"}
         /\ db_orders[i].slippage_bps # NoVal
         /\ db_orders[i].session_id \in DOMAIN db_sessions)
        => Abs(db_orders[i].slippage_bps) <= db_sessions[db_orders[i].session_id].cfg.max_slippage_bps

(* The rows a step added to the store.                                     *)
NewRows == {i \in DOMAIN db_orders' : i > Len(db_orders)}

(* C14: every buy row the engine writes while handling a trade has         *)
(* size_usdc within the session's max_position_usdc and within             *)
(* remaining_capital * copy_pct / |traders| of the session as it was when  *)
(* the trade arrived.                                                      *)
C14_BuySizeCapped ==
    [][event'.kind = "trade"
       => \A i \in NewRows :
             (db_orders'[i].side = "buy" /\ db_orders'[i].origin = "engine")
             => LET s == sessions[db_orders'[i].session_id]
                IN  /\ db_orders'[i].size_usdc <= s.cfg.max_position_usdc
                    /\ db_orders'[i].size_usdc * Cardinality(s.traders) * 100 <= s.remaining_capital * s.cfg.copy_pct]_vars

(* A 6 USDC source buy has just been copied with less than the 3 USDC cap: *)
(* the per-trader budget decided.                                          *)
C14_Witness ==
    /\ event.kind = "trade"
    /\ event.trade.usdc = Usdc(6)
    /\ db_orders # << >>
    /\ db_orders[Len(db_orders)].side = "buy"
    /\ db_orders[Len(db_orders)].created_at = now
    /\ db_orders[Len(db_orders)].size_usdc < Usdc(3)

(* The command the engine takes next, when the step is a command step.     *)
Delivered(type) ==
    /\ event'.kind = "command"
    /\ cmd_queue # << >>
    /\ cmd_queue' = Tail(cmd_queue)
    /\ Head(cmd_queue).type = type

(* The fields of a session that bookkeeping owns.                          *)
Holdings(s) == <<s.remaining_capital, s.positions, s.open_gtc_orders>>

(* C15: a Pause and a Resume of an active session each leave its           *)
(* remaining_capital, positions and open_gtc_orders as they were, so a     *)
(* Pause followed by a Resume with nothing in between does too.            *)
C15_PauseResumeNoOp ==
    [][((Delivered("Pause") \/ Delivered("Resume")) /\ Head(cmd_queue).sid \in DOMAIN sessions)
       => /\ Head(cmd_queue).sid \in DOMAIN sessions'
          /\ Holdings(sessions'[Head(cmd_queue).sid]) = Holdings(sessions[Head(cmd_queue).sid])]_vars

(* A session holding shares and a resting GTC order has just been resumed. *)
C15_Witness ==
    /\ event.kind = "command"
    /\ out # << >>
    /\ out[1].type = "SessionResumed"
    /\ \E sid \in DOMAIN sessions :
          /\ out[1].sid = sid
          /\ sessions[sid].open_gtc_orders # {}
          /\ \E a \in Assets : sessions[sid].positions[a].shares > 0

(* The outputs of a step that name a session.                              *)
OutsFor(o, sid) == {i \in DOMAIN o : o[i].sid = sid}

C17_StoppedIsTerminal ==
    [][\A sid \in DOMAIN db_sessions \cap DOMAIN db_sessions' :
          db_sessions[sid].status = "stopped" => db_sessions'[sid].status = "stopped"]_vars

(* A trade has just been handled by a session the engine still runs while  *)
(* its row is already stopped.                                             *)
C17_Witness ==
    /\ event.kind = "trade"
    /\ \E sid \in Running(sessions) :
          /\ sid \in DOMAIN db_sessions
          /\ db_sessions[sid].status = "stopped"
          /\ ToLower(event.trade.trader) \in sessions[sid].traders

(* The ids of the order rows of a session.                                 *)
OrderIds(orders, sid) == {orders[i].id : i \in {j \in DOMAIN orders : orders[j].session_id = sid}}

(* C18: a step removes a session row only when its status is stopped; the  *)
(* row of a Running or Paused session and every one of its order rows are  *)
(* still in the store after any step.                                      *)
C18_DeleteOnlyStopped ==
    [][\A sid \in DOMAIN db_sessions :
          db_sessions[sid].status # "stopped"
          => /\ sid \in DOMAIN db_sessions'
             /\ OrderIds(db_orders, sid) \subseteq OrderIds(db_orders', sid)]_vars

(* A session that had order rows has just been deleted, rows included.     *)
C18_Witness ==
    /\ event.kind = "http"
    /\ next_session > 1
    /\ db_sessions = << >>
    /\ next_uuid > 1
    /\ db_orders = << >>

(* The in-memory state of a session id: absent, or the fields commands act *)
(* on.                                                                     *)
InMemory(sess, sid) ==
    IF sid \in DOMAIN sess
    THEN <<sess[sid].status, sess[sid].traders, sess[sid].remaining_capital, sess[sid].positions, sess[sid].open_gtc_orders>>
    ELSE <<"absent">>

(* The step delivers the second copy of the command the previous step      *)
(* delivered: commands are sent in pairs to an empty channel.              *)
DeliveredAgain ==
    /\ event.kind = "command"
    /\ Len(cmd_queue) = 1
    /\ event'.kind = "command"
    /\ cmd_queue' = << >>

(* C19: the second of two deliveries in a row of the same command leaves   *)
(* the session's status, traders, capital, positions and open_gtc_orders   *)
(* as the first left them, and a Pause, Resume or Stop for an id that is   *)
(* not in the active map changes no state and emits nothing.               *)
C19_CommandsIdempotent ==
    [][/\ DeliveredAgain
          => InMemory(sessions', Head(cmd_queue).sid) = InMemory(sessions, Head(cmd_queue).sid)
       /\ ((Delivered("Pause") \/ Delivered("Resume") \/ Delivered("Stop")) /\ Head(cmd_queue).sid \notin DOMAIN sessions)
          => /\ out' = << >>
             /\ UNCHANGED <<sessions, order_timestamps, clob_client, watch, db_sessions, db_orders>>]_vars

(* A session holding shares has just taken the second of two Resumes.      *)
C19_Witness ==
    /\ event.kind = "command"
    /\ cmd_queue = << >>
    /\ out # << >>
    /\ out[1].type = "SessionResumed"
    /\ \E sid \in DOMAIN sessions :
          /\ out[1].sid = sid
          /\ \E a \in Assets : sessions[sid].positions[a].shares > 0

(* C20: an order posted for a session is signed by the Exchange Client of  *)
(* that session's owner.                                                   *)
C20_OwnCredentials ==
    [][event'.kind = "trade"
       => \A sid \in DOMAIN sessions :
             PostedFor(sid, out') => clob_client = sessions[sid].cfg.owner]_vars

(* The SessionStopped events of a step for a session.                      *)
StoppedOuts(o, sid) == {i \in DOMAIN o : o[i].type = "SessionStopped" /\ o[i].sid = sid}

(* Start did not go through: nothing inserted, the row stopped, one        *)
(* SessionStopped with the failure as its reason.                          *)
StartRefused(sid) ==
    /\ sessions' = sessions
    /\ db_sessions'[sid].status = "stopped"
    /\ Cardinality(StoppedOuts(out', sid)) = 1
    /\ \A i \in StoppedOuts(out', sid) : out'[i].arg \in {"clob_init_failed", "resolve_failed"}

(* Start went through: the session is in the active map, the row is as it  *)
(* was and nothing says the session stopped.                               *)
StartDone(sid) ==
    /\ sid \in DOMAIN sessions'
    /\ db_sessions' = db_sessions
    /\ StoppedOuts(out', sid) = {}

(* C21: a Start for a stored session either inserts it or, when the        *)
(* Exchange Client cannot be initialised or the traders cannot be          *)
(* resolved, inserts nothing, sets the stored status to stopped and emits  *)
(* exactly one SessionStopped with the failure as reason; a live session   *)
(* that finds no client and leaves none behind is always refused.          *)
C21_StartFailure ==
    [][(Delivered("Start") /\ Head(cmd_queue).sid \in DOMAIN db_sessions)
       => /\ StartDone(Head(cmd_queue).sid) \/ StartRefused(Head(cmd_queue).sid)
          /\ (~db_sessions[Head(cmd_queue).sid].cfg.simulate /\ clob_client = None /\ clob_client' = None)
                => StartRefused(Head(cmd_queue).sid)]_vars

(* A live session's Start has just failed at the client.                   *)
C21_Witness ==
    /\ event.kind = "command"
    /\ \E i \in DOMAIN out : out[i].type = "SessionStopped" /\ out[i].arg = "clob_init_failed"
    /\ \E sid \in DOMAIN db_sessions :
          /\ db_sessions[sid].status = "stopped"
          /\ ~db_sessions[sid].cfg.simulate
          /\ sid \notin DOMAIN sessions
          /\ clob_client = None

(* The positions of a step's outputs where OrderPlaced is emitted for an   *)
(* order id.                                                               *)
PlacedAt(o, id) == {i \in DOMAIN o : o[i].type = "OrderPlaced" /\ o[i].n = id}

(* C22: OrderPlaced comes before the execution of its order and before any *)
(* OrderFilled or OrderFailed for it: a post to the exchange and a         *)
(* terminal event follow the OrderPlaced of their order id, and a trade    *)
(* moves a session's capital or positions only with an OrderPlaced emitted *)
(* for that session.                                                       *)
C22_PlacedFirst ==
    [][event'.kind = "trade"
       => /\ \A j \in DOMAIN out' :
                out'[j].type \in {"post", "OrderFilled", "OrderFailed"}
                => \E i \in PlacedAt(out', out'[j].n) : i < j
          /\ \A sid \in DOMAIN sessions \cap DOMAIN sessions' :
                (sessions'[sid].remaining_capital # sessions[sid].remaining_capital \/ sessions'[sid].positions # sessions[sid].positions)
                => \E i \in DOMAIN out' : out'[i].type = "OrderPlaced" /\ out'[i].sid = sid]_vars

(* The sessions a step wrote a Filled or Simulated order row for.          *)
FilledSessions == {db_orders'[i].session_id : i \in {j \in NewRows : db_orders'[j].status \in {"filled", "simulated"}}}

(* C23: after the engine handles a trade that yields a Filled or Simulated *)
(* order the stored remaining_capital equals the in-memory one, and no     *)
(* HTTP handler writes the stored remaining_capital of a session that is   *)
(* active in the engine.                                                   *)
C23_CapitalPersisted ==
    [][/\ event'.kind = "trade"
          => \A sid \in FilledSessions \cap DOMAIN sessions' \cap DOMAIN db_sessions' :
                db_sessions'[sid].remaining_capital = sessions'[sid].remaining_capital
       /\ event'.kind = "http"
          => \A sid \in DOMAIN sessions \cap DOMAIN db_sessions \cap DOMAIN db_sessions' :
                db_sessions'[sid].remaining_capital = db_sessions[sid].remaining_capital]_vars

(* The entries of a rate window stamped at a given time, and the posts of  *)
(* a step.                                                                 *)
StampedAt(ots, at) == {i \in DOMAIN ots : ots[i] = at}

Posts(o) == {i \in DOMAIN o : o[i].type = "post"}

(* C24: every order posted to the exchange, a failed one included, stamps  *)
(* recent_orders for its asset and side with the time of the trade and     *)
(* adds one entry to the rate window; a trade that posts nothing for a     *)
(* session leaves that session's stamps alone.                             *)
C24_PostsAreStamped ==
    [][event'.kind = "trade"
       => /\ \A sid \in DOMAIN sessions \cap DOMAIN sessions' :
                IF PostedFor(sid, out')
                THEN sessions'[sid].recent_orders[DedupKey(event'.trade)] = now
                ELSE sessions[sid].cfg.simulate \/ sessions'[sid].recent_orders = sessions[sid].recent_orders
          /\ Cardinality(StampedAt(order_timestamps', now)) = Cardinality(StampedAt(order_timestamps, now)) + Cardinality(Posts(out'))]_vars

(* The trade gets past the filter, the cooldown and the dedup of a session. *)
ReachesSizing(s, t, at) ==
    /\ ToLower(t.trader) \in s.traders
    /\ s.cooldown_until = NoTime \/ at >= s.cooldown_until
    /\ s.recent_orders[DedupKey(t)] = NoTime \/ at - s.recent_orders[DedupKey(t)] >= DEDUP_WINDOW

(* C25: when a Buy of a tracked trader reaches the balance step of a       *)
(* Running session whose remaining_capital is below 1 USDC, the session's  *)
(* in-memory and stored status become paused and a SessionPaused event is  *)
(* emitted.                                                                *)
C25_AutoPause ==
    [][(event'.kind = "trade" /\ event'.trade.side = "buy")
       => \A sid \in Running(sessions) :
             (ReachesSizing(sessions[sid], event'.trade, now) /\ sessions[sid].remaining_capital < MIN_ORDER_USDC)
             => /\ sessions'[sid].status = "paused"
                /\ db_sessions'[sid].status = "paused"
                /\ \E i \in DOMAIN out' : out'[i].type = "SessionPaused" /\ out'[i].sid = sid]_vars

(* The rows a step wrote for a session with one of the given statuses.     *)
NewRowsOf(sid, statuses) == {i \in NewRows : db_orders'[i].session_id = sid /\ db_orders'[i].status \in statuses}

Cooling(s, at) == s.cooldown_until # NoTime /\ at < s.cooldown_until

(* The failure counter a trade finds once an elapsed cooldown is cleared.  *)
CounterFound(s) == IF s.cooldown_until # NoTime THEN 0 ELSE s.consecutive_failures

(* C26: a Failed order adds one to consecutive_failures and the third in a *)
(* row starts a cooldown of 60 seconds; during the cooldown a trade gives  *)
(* the session no price query, no submission and no order row; the first   *)
(* trade of a tracked trader after the cooldown clears it and resets the   *)
(* counter, and a successful submission resets the counter to 0.           *)
C26_FailureCooldown ==
    [][event'.kind = "trade"
       => \A sid \in Running(sessions) :
             LET s == sessions[sid]
                 s2 == sessions'[sid]
                 failed == NewRowsOf(sid, {"failed"}) # {}
                 done == NewRowsOf(sid, {"filled", "simulated", "submitted"}) # {}
             IN  ToLower(event'.trade.trader) \in s.traders
                 => /\ Cooling(s, now) => (OutsFor(out', sid) = {} /\ NewRowsOf(sid, {"failed", "filled", "simulated", "submitted"}) = {} /\ s2 = s)
                    /\ failed => /\ s2.consecutive_failures = CounterFound(s) + 1
                                 /\ s2.cooldown_until = IF CounterFound(s) + 1 >= 3 THEN now + 60 ELSE NoTime
                    /\ (~Cooling(s, now) /\ ~failed) => s2.cooldown_until = NoTime
                    /\ (~Cooling(s, now) /\ ~failed /\ s.cooldown_until # NoTime) => s2.consecutive_failures = 0
                    /\ done => s2.consecutive_failures = 0]_vars

(* The third failure in a row has just put a session into its cooldown.    *)
C26_Witness ==
    /\ event.kind = "trade"
    /\ \E sid \in Running(sessions) :
          /\ sessions[sid].consecutive_failures = 3
          /\ sessions[sid].cooldown_until = now + 60
          /\ Cardinality({i \in DOMAIN db_orders : db_orders[i].session_id = sid /\ db_orders[i].status = "failed"}) = 3

(* C27: when the engine handles the Resume of a session that the HTTP      *)
(* handler has taken from paused to running in the store, the session is   *)
(* afterwards in the active map with status running, resolved traders, no  *)
(* failures and no cooldown, SessionResumed has been emitted and the       *)
(* tracked set republished, also after a restart that found it paused.     *)
C27_ResumeRuns ==
    [][(Delivered("Resume") /\ Head(cmd_queue).sid \in DOMAIN db_sessions /\ db_sessions[Head(cmd_queue).sid].status = "running")
       => LET sid == Head(cmd_queue).sid
          IN  /\ sid \in DOMAIN sessions'
              /\ sessions'[sid].status = "running"
              /\ sessions'[sid].traders = ResolveSessionTraders(db_sessions[sid].cfg)
              /\ sessions'[sid].consecutive_failures = 0
              /\ sessions'[sid].cooldown_until = NoTime
              /\ \E i \in DOMAIN out' : out'[i].type = "SessionResumed" /\ out'[i].sid = sid
              /\ \E i \in DOMAIN out' : out'[i].type = "publish"]_vars

Paused(sess) == {s \in DOMAIN sess : sess[s].status = "paused"}

(* C28: a trade gives a session whose in-memory status is paused no price  *)
(* query, no submission, no event and no order row and leaves its state as *)
(* it was, and a tracked set published while it is paused holds a trader   *)
(* of the session only when a Running session follows that trader too.     *)
C28_PausedIsIdle ==
    [][/\ event'.kind = "trade"
          => \A sid \in Paused(sessions) :
                /\ OutsFor(out', sid) = {}
                /\ OrdersOf(db_orders', sid) = OrdersOf(db_orders, sid)
                /\ sessions'[sid] = sessions[sid]
       /\ (\E i \in DOMAIN out' : out'[i].type = "publish")
          => \A sid \in Paused(sessions') :
                sessions'[sid].traders \cap watch'.value \subseteq UNION {sessions'[r].traders : r \in Running(sessions')}]_vars

(* A trader of a paused session has just traded; the tracked set and the   *)
(* store show no trace of the paused session.                              *)
C28_Witness ==
    /\ event.kind = "trade"
    /\ \E sid \in Paused(sessions) :
          /\ ToLower(event.trade.trader) \in sessions[sid].traders
          /\ sessions[sid].traders \cap watch.value = {}
          /\ Running(sessions) # {}

(* The cancel requests of a step for a session.                            *)
CancelOuts(o, sid) == {i \in DOMAIN o : o[i].type = "cancel_all" /\ o[i].sid = sid}

(* C29: a Stop for an active session asks the exchange, when there is a    *)
(* client, to cancel all of the session's open GTC orders, removes the     *)
(* session from the active map, emits exactly one SessionStopped with      *)
(* reason user and republishes the tracked set, whatever the answer to the *)
(* cancel request.                                                         *)
C29_StopAlwaysStops ==
    [][(Delivered("Stop") /\ Head(cmd_queue).sid \in DOMAIN sessions)
       => LET sid == Head(cmd_queue).sid
          IN  /\ sid \notin DOMAIN sessions'
              /\ Cardinality(StoppedOuts(out', sid)) = 1
              /\ \A i \in StoppedOuts(out', sid) : out'[i].arg = "user"
              /\ \E i \in DOMAIN out' : out'[i].type = "publish"
              /\ watch'.value = TrackedUnion(sessions')
              /\ (sessions[sid].open_gtc_orders # {} /\ clob_client # None)
                    => \E i \in CancelOuts(out', sid) : out'[i].n = Cardinality(sessions[sid].open_gtc_orders)]_vars

(* A session with a resting GTC order has just been stopped although the   *)
(* cancel request failed.                                                  *)
C29_Witness ==
    /\ event.kind = "command"
    /\ \E i \in DOMAIN out : out[i].type = "cancel_all" /\ out[i].arg = "err" /\ out[i].sid \notin DOMAIN sessions
    /\ \E i \in DOMAIN out : out[i].type = "SessionStopped" /\ out[i].arg = "user"

(* C30: when the circuit breaker stops a session and the cancel request    *)
(* for its open GTC orders does not succeed, or there is no Exchange       *)
(* Client, the same health tick still removes the session from the active  *)
(* map, sets its stored status to stopped, emits SessionStopped after the  *)
(* cancel request and republishes the tracked set.                         *)
C30_StopNotBlocked ==
    [][event'.kind = "health"
       => \A sid \in DOMAIN sessions :
             (LossPctAbove(sessions[sid]) /\ (clob_client = None \/ \E i \in CancelOuts(out', sid) : out'[i].arg # "all"))
             => /\ sid \notin DOMAIN sessions'
                /\ sid \in DOMAIN db_sessions' => db_sessions'[sid].status = "stopped"
                /\ \E j \in StoppedOuts(out', sid) : \A i \in CancelOuts(out', sid) : i < j
                /\ \E k \in DOMAIN out' : out'[k].type = "publish" /\ \A j \in StoppedOuts(out', sid) : j < k
                /\ watch'.value = TrackedUnion(sessions')]_vars

(* The breaker has just stopped a session whose cancel request came back   *)
(* with an error.                                                          *)
C30_Witness ==
    /\ event.kind = "health"
    /\ \E i, j \in DOMAIN out :
          /\ out[i].type = "cancel_all" /\ out[i].arg = "err"
          /\ out[j].type = "SessionStopped" /\ out[j].arg = "circuit_breaker" /\ out[j].sid = out[i].sid
          /\ out[i].sid \notin DOMAIN sessions
          /\ out[i].sid \in DOMAIN db_sessions
          /\ db_sessions[out[i].sid].status = "stopped"

(* The cancel requests of a step, of either kind.                          *)
CancelRequests(o) == {i \in DOMAIN o : o[i].type \in {"cancel_all", "cancel_expired"}}

(* C31: the engine asks the exchange to cancel orders only while handling  *)
(* a Stop command for the session, or at a health tick for a session that  *)
(* has a GTC order older than GTC_TIMEOUT or whose loss is above its       *)
(* max_loss_pct; a trade, a Pause, a Resume or a Start sends no cancel     *)
(* request.                                                                *)
C31_CancelOnlyThreeWays ==
    [][\A i \in CancelRequests(out') :
          \/ /\ Delivered("Stop")
             /\ out'[i].type = "cancel_all"
             /\ out'[i].sid = Head(cmd_queue).sid
          \/ /\ event'.kind = "health"
             /\ out'[i].sid \in DOMAIN sessions
             /\ IF out'[i].type = "cancel_all"
                THEN LossPctAbove(sessions[out'[i].sid])
                ELSE \E g \in sessions[out'[i].sid].open_gtc_orders : now - g.placed_at > GTC_TIMEOUT]_vars

(* A health tick has just asked the exchange to cancel an expired GTC      *)
(* order.                                                                  *)
C31_Witness ==
    /\ event.kind = "health"
    /\ \E i \in DOMAIN out : out[i].type = "cancel_expired"

(* The step is the trade t answered by the exchange as e says, and an      *)
(* order was posted for the session sid.                                   *)
Answered(t, e, sid) ==
    /\ Running(sessions) = {sid}
    /\ RecvTrade(t, <<sid>>, [x \in {sid} |-> e])
    /\ \E i \in DOMAIN out' : out'[i].type = "post" /\ out'[i].sid = sid
    /\ Len(db_orders') = Len(db_orders) + 1

(* The other assets of a session are left alone.                           *)
OthersKept(s, s2, asset) == \A a \in Assets \ {asset} : s2.positions[a] = s.positions[a]

(* C32: a live order answered Canceled or Unmatched is stored as canceled  *)
(* and leaves remaining_capital, positions and open_gtc_orders unchanged;  *)
(* answered Matched it is stored as filled and moves remaining_capital and *)
(* the asset's shares by the making and taking amounts of the answer (a    *)
(* sell that leaves less than the dust removes the entry); answered Live   *)
(* it is stored as submitted and enters open_gtc_orders; an error or an    *)
(* unsuccessful answer is stored as failed with remaining_capital and      *)
(* positions unchanged.                                                    *)
C32_ResponseClassified ==
    [][\A t \in PairTrades : \A e \in RespEnvs(t) : \A sid \in DOMAIN sessions :
          Answered(t, e, sid)
          => LET s == sessions[sid]
                 s2 == sessions'[sid]
                 row == db_orders'[Len(db_orders')]
                 making == MakingAmount(t, row.size_usdc, e)
                 taking == TakingAmount(t, row.size_usdc, e)
             IN  /\ row.session_id = sid
                 /\ CASE e.post = "unmatched" ->
                            /\ row.status = "canceled"
                            /\ s2.remaining_capital = s.remaining_capital
                            /\ s2.positions = s.positions
                            /\ s2.open_gtc_orders = s.open_gtc_orders
                      [] e.post = "matched" ->
                            /\ row.status = "filled"
                            /\ OthersKept(s, s2, t.asset)
                            /\ s2.open_gtc_orders = s.open_gtc_orders
                            /\ IF t.side = "buy"
                               THEN /\ s2.remaining_capital = s.remaining_capital - making
                                    /\ s2.positions[t.asset].shares = s.positions[t.asset].shares + taking
                               ELSE /\ s2.remaining_capital = s.remaining_capital + taking
                                    /\ s2.positions[t.asset].shares =
                                          IF s.positions[t.asset].shares - making < DUST_SHARES
                                          THEN 0 ELSE s.positions[t.asset].shares - making
                      [] e.post = "live" ->
                            /\ row.status = "submitted"
                            /\ \E g \in s2.open_gtc_orders \ s.open_gtc_orders : g.our_id = row.id
                            /\ s2.positions = s.positions
                      [] OTHER ->
                            /\ row.status = "failed"
                            /\ s2.remaining_capital = s.remaining_capital
                            /\ s2.positions = s.positions
                            /\ s2.open_gtc_orders = s.open_gtc_orders]_vars

(* A sell was answered unmatched: its row is canceled and the session      *)
(* still holds the shares.                                                 *)
C32_Witness ==
    /\ event.kind = "trade"
    /\ event.trade.side = "sell"
    /\ db_orders # << >>
    /\ db_orders[Len(db_orders)].status = "canceled"
    /\ db_orders[Len(db_orders)].created_at = now
    /\ \E i \in DOMAIN out : out[i].type = "post"
    /\ \E sid \in DOMAIN sessions : sessions[sid].positions[event.trade.asset].shares > 0

(* The gates of process_trade that depend on the session alone: trader not *)
(* tracked, cooldown, dedup, price or amount not positive, order below     *)
(* MIN_ORDER_USDC.                                                         *)
OwnGate(s, t, at) ==
    \/ ToLower(t.trader) \notin s.traders
    \/ s.cooldown_until # NoTime /\ at < s.cooldown_until
    \/ s.recent_orders[DedupKey(t)] # NoTime /\ at - s.recent_orders[DedupKey(t)] < DEDUP_WINDOW
    \/ t.price <= 0
    \/ t.usdc <= 0
    \/ SizeOrder(t, s) < MIN_ORDER_USDC

(* The step went no further than asking a quote for the session: nothing   *)
(* was placed, posted, failed or paused.  This is what the rate limit, the *)
(* slippage gate and a missing quote leave behind.                         *)
Silent(o, sid) == \A i \in DOMAIN o : o[i].sid = sid => o[i].type = "quote"

(* C33: a trade refused at a gate writes nothing to the store for the      *)
(* session: no order row is inserted for it and its session row is as      *)
(* before.                                                                 *)
C33_SkipsWriteNothing ==
    [][event'.kind = "trade"
       => \A sid \in Running(sessions) :
             (OwnGate(sessions[sid], event'.trade, now) \/ Silent(out', sid))
             => /\ OrderIds(db_orders', sid) = OrderIds(db_orders, sid)
                /\ sid \in DOMAIN db_sessions => (sid \in DOMAIN db_sessions' /\ db_sessions'[sid] = db_sessions[sid])
                /\ Silent(out', sid)]_vars

(* The rate limit has just refused a trade: the window holds               *)
(* MAX_ORDERS_PER_MINUTE orders and a session that follows the trader, is  *)
(* out of cooldown and has not traded the key was left without an order.   *)
C33_Witness ==
    /\ event.kind = "trade"
    /\ Len(Retained(order_timestamps, now)) >= MAX_ORDERS_PER_MINUTE
    /\ \E sid \in Running(sessions) :
          /\ ~OwnGate(sessions[sid], event.trade, now)
          /\ \A i \in DOMAIN out : out[i].sid # sid
          /\ \E i \in DOMAIN out : out[i].type = "post"

(* The sell rows a step inserted for a session, filled, simulated or       *)
(* resting.                                                                *)
SellRows(sid) ==
    {i \in NewRows : /\ db_orders'[i].session_id = sid
                     /\ db_orders'[i].side = "sell"
                     /\ db_orders'[i].status \in {"filled", "simulated", "submitted"}}

C35_ExponentialBackoff ==
    [][/\ ws'.backoff >= RECONNECT_BASE_DELAY
       /\ ws'.backoff <= RECONNECT_MAX_DELAY
       /\ (ws.pc = "sleep" /\ ws'.pc = "loop") => ws'.backoff = Min(2 * ws.backoff, RECONNECT_MAX_DELAY)
       /\ (ws.pc # "sleep" /\ ws'.backoff # ws.backoff)
             => (ws'.backoff = RECONNECT_BASE_DELAY /\ (ws'.pc = "active" \/ ws.pc = "run"))]_vars

(* C36: a log with makerAssetId 0 is sent as a buy of takerAssetId for     *)
(* makerAmountFilled USDC and takerAmountFilled shares; one with           *)
(* takerAssetId 0 as a sell of makerAssetId for takerAmountFilled USDC and *)
(* makerAmountFilled shares; a log with both asset ids non-zero, or        *)
(* flagged removed, sends no LiveTrade.                                    *)
C36_DecodeOrderFilled ==
    [][\A log \in Logs :
          WsLog(log)
          => IF log.removed \/ (log.makerAssetId # 0 /\ log.takerAssetId # 0)
             THEN event'.kind # "trade"
             ELSE IF log.topics < 4
             THEN event'.kind # "trade"
             ELSE /\ event'.kind = "trade"
                  /\ event'.trade.trader = log.maker
                  /\ IF log.makerAssetId = 0
                     THEN /\ event'.trade.side = "buy"
                          /\ event'.trade.asset = AssetName(log.takerAssetId)
                          /\ event'.trade.usdc * RawPerUnit = log.makerAmountFilled
                          /\ event'.trade.amount * RawPerUnit = log.takerAmountFilled
                     ELSE /\ event'.trade.side = "sell"
                          /\ event'.trade.asset = AssetName(log.makerAssetId)
                          /\ event'.trade.usdc * RawPerUnit = log.takerAmountFilled
                          /\ event'.trade.amount * RawPerUnit = log.makerAmountFilled]_vars

(* A buy log has just been decoded and copied by the session: 2 USDC for 4 *)
(* shares, at 0.5.                                                         *)
C36_Witness ==
    /\ event.kind = "trade"
    /\ event.trade.side = "buy"
    /\ event.trade.usdc = Usdc(2)
    /\ event.trade.price = 500
    /\ ws.pc = "active"
    /\ \E i \in DOMAIN out : out[i].type = "OrderFilled"

(* The buys a step simulated for a session.                                *)
SimulatedBuys(sid) ==
    {i \in NewRows : /\ db_orders'[i].session_id = sid
                     /\ db_orders'[i].side = "buy"
                     /\ db_orders'[i].status = "simulated"}

(* C37: the remaining_capital of a simulated session is never negative,    *)
(* and a simulated buy takes from it exactly the USDC of its order, which  *)
(* is no more than what was there.                                         *)
C37_SimulatedCapital ==
    [][/\ \A sid \in DOMAIN sessions' :
             sessions'[sid].cfg.simulate => sessions'[sid].remaining_capital >= 0
       /\ event'.kind = "trade"
             => \A sid \in DOMAIN sessions : \A i \in SimulatedBuys(sid) :
                   /\ db_orders'[i].size_usdc <= sessions[sid].remaining_capital
                   /\ sessions'[sid].remaining_capital = sessions[sid].remaining_capital - db_orders'[i].size_usdc]_vars

(* A simulated buy has just taken all the capital that was left.           *)
C37_Witness ==
    /\ event.kind = "trade"
    /\ event.trade.side = "buy"
    /\ \E i \in DOMAIN out : out[i].type = "OrderFilled"
    /\ \E sid \in DOMAIN sessions : sessions[sid].cfg.simulate /\ sessions[sid].remaining_capital = 0

(* C38: in every state of an active session cooldown_until is set if and   *)
(* only if consecutive_failures is at least MAX_CONSECUTIVE_FAILURES.      *)
C38_CooldownMatchesFailures ==
    \A sid \in DOMAIN sessions :
        (sessions[sid].cooldown_until # NoTime) <=> (sessions[sid].consecutive_failures >= MAX_CONSECUTIVE_FAILURES)

(* A session whose cooldown has run out and has not been cleared yet: it   *)
(* still counts three failures.                                            *)
C38_Witness ==
    \E sid \in DOMAIN sessions :
        /\ sessions[sid].consecutive_failures = MAX_CONSECUTIVE_FAILURES
        /\ sessions[sid].cooldown_until # NoTime
        /\ now > sessions[sid].cooldown_until

(* C39: a trade that leaves no Simulated order row for a simulated session *)
(* (nothing was submitted, the failed INSERT included) leaves the          *)
(* session's remaining_capital and positions as they were.                 *)
C39_FillOnlyWithRow ==
    [][event'.kind = "trade"
       => \A sid \in DOMAIN sessions \cap DOMAIN sessions' :
             (sessions[sid].cfg.simulate /\ NewRowsOf(sid, {"simulated"}) = {})
             => /\ sessions'[sid].remaining_capital = sessions[sid].remaining_capital
                /\ sessions'[sid].positions = sessions[sid].positions]_vars

(* C40: every order row stored as submitted eventually leaves that status  *)
(* for filled or canceled.                                                 *)
C40_SubmittedIsSettled ==
    \A id \in 1..(MaxOrders + 1) :
        (RowStatus(db_orders, id) = "submitted") ~> (RowStatus(db_orders, id) \in {"filled", "canceled"})

====
